---------------------------- MODULE Spec2Model ----------------------------
(***************************************************************************)
(* A model of the g5cia firmware patch pipeline: the byte-level Patcher    *)
(* (patcher.py), the SecurityAnalyzer (security.py), the volume scan of    *)
(* the ImageParser (image.py) and the PatchEngine orchestrator (engine.py).*)
(*                                                                         *)
(* Buffers are sequences of byte values.  Python indexes from 0, TLA+ from *)
(* 1: the byte at Python offset i of buffer b is b[i + 1].                 *)
(***************************************************************************)
EXTENDS Integers, Sequences, FiniteSets, TLC

VARIABLES
    pdata,        \* Patcher.data: the bytearray the Patcher owns
    patches,      \* Patcher.patches: the ledger, a sequence of Patch records
    setup_base,   \* Patcher.setup_base: <<>> is None, <<b>> is the offset b
    initData,     \* the bytes the Patcher was constructed with
    prevData,     \* Patcher.data as it was when the most recent call began
    prevPatches,  \* Patcher.patches as it was when the most recent call began
    last,         \* the most recent call: [op, off, arg, ret]
    repeat,       \* TRUE iff the most recent call repeats the call before it
    calls         \* the number of calls made so far

patcherVars == <<pdata, patches, setup_base, initData, prevData, prevPatches,
                 last, repeat, calls>>

VARIABLES
    secData,      \* SecurityAnalyzer.data: the bytes under analysis
    status,       \* SecurityAnalyzer.status: the SecurityStatus record
    analyses      \* the number of analyze() calls made on the analyzer

analyzerVars == <<secData, status, analyses>>

VARIABLES
    inFile,       \* the bytes of the input image file
    hasData,      \* PatchEngine.data is not None
    data,         \* PatchEngine.data (<<>> while it is None)
    hasParser,    \* PatchEngine.parser is not None
    volumes,      \* PatchEngine.parser.volumes
    setup_offset, \* PatchEngine.parser.setup_offset: <<>> is None
    hasPatcher,   \* PatchEngine.patcher is not None
    stats,        \* PatchEngine.stats: the EngineStats record
    fs,           \* the directory save writes in: path -> [exists, bytes]
    pc,           \* where the engine is: "idle" between calls, "written" and
                  \* "verified" inside save, "crashed" or "hung" for good
    outBefore,    \* the file at output_path when the current save began
    dataBefore,   \* PatchEngine.data when the most recent call began
    passed,       \* some preflight on this engine has returned True
    refused,      \* some preflight on this engine has returned False
    saved,        \* a save of this engine has written the output path
    injected      \* some inject_rebar_driver on this engine has returned True

engineVars == <<inFile, hasData, data, hasParser, volumes, setup_offset,
                hasPatcher, stats, fs, pc, outBefore,
                dataBefore, passed, refused, saved, injected>>

VARIABLES
    codec,        \* the most recent encode / decode round trip:
                  \* [fn, input, encoded, decoded]
    parserData,   \* ImageParser.data: the bytes a stand-alone parser holds
    parsed        \* what its parse() left: [ret, volumes, setup_offset]

pureVars == <<codec, parserData, parsed>>

VARIABLES
    ifr,          \* the IFRParser's fields: [offsets, varstores, strings,
                  \* current_varstore, cache_valid]; a dict is the sequence
                  \* of its <<key, value>> pairs in insertion order
    ifrData,      \* the argument of the most recent parse call
    ifrRet,       \* the mapping that call returned
    ifrWalk,      \* what the opcode walk of that call did: [trace, seen]
    ifrCalls,     \* the number of parse calls made on the instance
    lookup        \* the most recent lookup: [fn, name, answer]

ifrVars == <<ifr, ifrData, ifrRet, ifrWalk, ifrCalls, lookup>>

vars == <<patcherVars, analyzerVars, engineVars, pureVars, ifrVars>>

\* no encoding has been computed
CodecUnused ==
    codec = [fn |-> "none", input |-> 0, encoded |-> <<>>, decoded |-> 0]

\* no IFRParser has been constructed
IfrUnused ==
    /\ ifr = [offsets |-> <<>>, varstores |-> <<>>, strings |-> <<>>,
              current_varstore |-> <<>>, cache_valid |-> FALSE]
    /\ ifrData = <<>>
    /\ ifrRet = <<>>
    /\ ifrWalk = [trace |-> <<>>, seen |-> <<>>]
    /\ ifrCalls = 0
    /\ lookup = [fn |-> "none", name |-> <<>>, answer |-> <<>>]

\* no stand-alone ImageParser has been constructed
ParserUnused ==
    /\ parserData = <<>>
    /\ parsed = [ret |-> "none", volumes |-> <<>>, setup_offset |-> <<>>]

----------------------------------------------------------------------------
(* Byte-buffer helpers: Python's indexing, slicing and struct packing.     *)

Byte == 0..255

Min(a, b) == IF a < b THEN a ELSE b

\* data[i] for 0 <= i < len(data)
At(b, i) == b[i + 1]

\* data[lo:hi] for 0 <= lo: Python clamps the slice to the buffer
Slice(b, lo, hi) == SubSeq(b, lo + 1, Min(hi, Len(b)))

\* data[off:off+len(new)] = new, for an in-bounds range (the length is kept)
Splice(b, off, new) ==
    [i \in 1..Len(b) |->
        IF i > off /\ i <= off + Len(new) THEN new[i - off] ELSE b[i]]

\* n zero bytes, and n bytes of value v
Fill(n, v) == [i \in 1..n |-> v]

\* struct.pack('<H', v) for 0 <= v < 2^16
PackH(v) == <<v % 256, (v \div 256) % 256>>

\* struct.unpack('<H', two bytes)
UnpackH(b, off) == At(b, off) + 256 * At(b, off + 1)

\* A 32-bit field is held as its four little-endian bytes, so that every
\* value of the field is representable.
\* struct.pack('<I', v) for 0 <= v < 2^31
PackI(v) == <<v % 256, (v \div 256) % 256, (v \div 65536) % 256,
              (v \div 16777216) % 256>>

\* struct.unpack('<I', data[off:off+4]): the field's four bytes
UnpackI(b, off) == Slice(b, off, off + 4)

\* bit k (0 <= k < 32) of a 32-bit field
BitI(w, k) == (w[(k \div 8) + 1] \div (2 ^ (k % 8))) % 2

\* the field with bit k set (v = 1) or cleared (v = 0)
WithBitI(w, k, v) ==
    [w EXCEPT ![(k \div 8) + 1] = @ + (v - BitI(w, k)) * (2 ^ (k % 8))]

\* bytes.find(sig): the least offset where sig occurs, -1 when it does not
Find(b, sig) ==
    LET hits == {i \in 0..(Len(b) - Len(sig)) :
                    \A j \in 1..Len(sig) : b[i + j] = sig[j]}
    IN  IF hits = {} THEN 0 - 1
        ELSE CHOOSE i \in hits : \A k \in hits : i <= k

----------------------------------------------------------------------------
(* utils.py: checksums and the domain encodings.                           *)

\* a variant of checksum16 that returns the sum itself, not its complement
checksum16_plain(d) ==
    LET n == Len(d) \div 2
        RECURSIVE SumPlain(_)
        SumPlain(k) == IF k = 0 THEN 0
                       ELSE UnpackH(d, 2 * (k - 1)) + SumPlain(k - 1)
    IN  SumPlain(n) % 65536

\* checksum16(data): two's complement of the sum of the little-endian words
checksum16(d) ==
    LET n == Len(d) \div 2
        RECURSIVE SumWords(_)
        SumWords(k) == IF k = 0 THEN 0
                       ELSE UnpackH(d, 2 * (k - 1)) + SumWords(k - 1)
    IN  (65536 - (SumWords(n) % 65536)) % 65536

\* encode_power_limit(watts): struct.pack('<H', (watts * 1000 * 8) & 0xFFFF)
encode_power_limit(watts) == PackH((watts * 1000 * 8) % 65536)

\* int(x) of Python truncates toward zero; num / den is the exact quotient
TruncDiv(num, den) ==
    IF num >= 0 THEN num \div den ELSE 0 - ((0 - num) \div den)

\* encode_voltage_offset(mv): raw = int(mv * 1.024), clamped, packed '<h'
encode_voltage_offset(mv) ==
    LET raw     == TruncDiv(mv * 1024, 1000)
        clamped == IF raw < 0 - 32768 THEN 0 - 32768
                   ELSE IF raw > 32767 THEN 32767 ELSE raw
    IN  PackH(clamped % 65536)

\* decode_power_limit(data): (struct.unpack('<H', data)[0] // 8) // 1000
decode_power_limit(d) == (UnpackH(d, 0) \div 8) \div 1000

\* struct.unpack('<h', two bytes): the signed 16-bit value
UnpackSignedH(b, off) ==
    IF UnpackH(b, off) >= 32768 THEN UnpackH(b, off) - 65536
    ELSE UnpackH(b, off)

\* a variant of decode_voltage_offset that returns the raw units
decode_voltage_unscaled(d) == UnpackSignedH(d, 0)

\* decode_voltage_offset(data): int(raw / 1.024)
decode_voltage_offset(d) == TruncDiv(UnpackSignedH(d, 0) * 1000, 1024)

----------------------------------------------------------------------------
(* offsets.py: the static Setup offset table, name -> <<offset, size>>.    *)
(* The entries are the ones the Patcher and apply_config refer to, and one *)
(* two-byte field.                                                         *)

OFFSETS ==
    [CfgLk |-> <<67, 1>>, OcLk |-> <<68, 1>>, PlLk |-> <<94, 1>>,
     BiosLk |-> <<95, 1>>, PkgLk |-> <<96, 1>>, TdpLk |-> <<107, 1>>,
     Pl1En |-> <<100, 1>>, Pl2En |-> <<101, 1>>,
     Pl1L |-> <<102, 1>>, Pl1H |-> <<103, 1>>,
     Pl2L |-> <<104, 1>>, Pl2H |-> <<105, 1>>,
     Pl3L |-> <<108, 1>>, Pl3H |-> <<109, 1>>,
     Pl4L |-> <<110, 1>>, Pl4H |-> <<111, 1>>,
     Tau |-> <<106, 1>>,
     VcOL |-> <<112, 1>>, VcOH |-> <<113, 1>>,
     RgOL |-> <<116, 1>>, RgOH |-> <<117, 1>>,
     SaOL |-> <<120, 1>>, SaOH |-> <<121, 1>>,
     IoOL |-> <<124, 1>>, IoOH |-> <<125, 1>>,
     CSt |-> <<144, 1>>, C1E |-> <<145, 1>>, PkgC |-> <<146, 1>>,
     R1 |-> <<162, 1>>, R2 |-> <<163, 1>>, R3 |-> <<164, 1>>,
     R4 |-> <<165, 1>>, R5 |-> <<166, 1>>, R6 |-> <<167, 1>>,
     MFreq |-> <<177, 2>>,
     A4G |-> <<208, 1>>, RBar |-> <<209, 1>>]

\* the names of the low and high byte fields of a two-byte setting
LowName(prefix)  == CASE prefix = "Pl1" -> "Pl1L" [] prefix = "Pl2" -> "Pl2L"
                      [] prefix = "Pl3" -> "Pl3L" [] prefix = "Pl4" -> "Pl4L"
                      [] prefix = "Vc" -> "VcOL"  [] prefix = "Rg" -> "RgOL"
                      [] prefix = "Sa" -> "SaOL"  [] prefix = "Io" -> "IoOL"
HighName(prefix) == CASE prefix = "Pl1" -> "Pl1H" [] prefix = "Pl2" -> "Pl2H"
                      [] prefix = "Pl3" -> "Pl3H" [] prefix = "Pl4" -> "Pl4H"
                      [] prefix = "Vc" -> "VcOH"  [] prefix = "Rg" -> "RgOH"
                      [] prefix = "Sa" -> "SaOH"  [] prefix = "Io" -> "IoOH"

----------------------------------------------------------------------------
(* patcher.py: the Patcher.  Each operation is an operator from the        *)
(* Patcher's fields st = [data, patches, setup_base] to the fields after   *)
(* the call and its outcome ret: "ok" (returns True), "fail" (returns      *)
(* False) or "raise" (an exception leaves the call).                       *)

Patch(offset, old_data, new_data) ==
    [offset |-> offset, old_data |-> old_data, new_data |-> new_data,
     applied |-> TRUE]

Outcome(st, ret) ==
    [data |-> st.data, patches |-> st.patches, setup_base |-> st.setup_base,
     ret |-> ret]

\* a variant of Apply whose record takes its old bytes after the write
apply_post_image(st, offset, old_data, new_data) ==
    [data |-> Splice(st.data, offset, new_data),
     patches |-> Append(st.patches, Patch(offset, new_data, new_data)),
     setup_base |-> st.setup_base,
     ret |-> "ok"]

\* the body shared by the three primitives once old != new: append, write
Apply(st, offset, old_data, new_data) ==
    [data |-> Splice(st.data, offset, new_data),
     patches |-> Append(st.patches, Patch(offset, old_data, new_data)),
     setup_base |-> st.setup_base,
     ret |-> "ok"]

\* patch_byte without the "already holds the value" early return
patch_byte_always(st, offset, value) ==
    IF offset >= Len(st.data) THEN Outcome(st, "fail")
    ELSE IF value \notin Byte THEN Outcome(st, "raise")
    ELSE Apply(st, offset, <<At(st.data, offset)>>, <<value>>)

patch_byte(st, offset, value) ==
    IF offset >= Len(st.data) THEN Outcome(st, "fail")
    ELSE IF At(st.data, offset) = value THEN Outcome(st, "ok")
    ELSE IF value \notin Byte THEN Outcome(st, "raise")  \* bytes([value])
    ELSE Apply(st, offset, <<At(st.data, offset)>>, <<value>>)

\* patch_word with the bounds check off by one (offset + 1 > len)
patch_word_loose(st, offset, value) ==
    IF offset + 1 > Len(st.data) THEN Outcome(st, "fail")
    ELSE LET old_data == Slice(st.data, offset, offset + 2)
             new_data == PackH(value % 65536)
         IN  IF old_data = new_data THEN Outcome(st, "ok")
             ELSE Apply(st, offset, old_data, new_data)

patch_word(st, offset, value) ==
    IF offset + 2 > Len(st.data) THEN Outcome(st, "fail")
    ELSE LET old_data == Slice(st.data, offset, offset + 2)
             new_data == PackH(value % 65536)
         IN  IF old_data = new_data THEN Outcome(st, "ok")
             ELSE Apply(st, offset, old_data, new_data)

patch_bytes(st, offset, new_data) ==
    IF offset + Len(new_data) > Len(st.data) THEN Outcome(st, "fail")
    ELSE LET old_data == Slice(st.data, offset, offset + Len(new_data))
         IN  IF old_data = new_data THEN Outcome(st, "ok")
             ELSE Apply(st, offset, old_data, new_data)

patch_setup_offset(st, name, value) ==
    IF st.setup_base = <<>> THEN Outcome(st, "fail")
    ELSE IF name \notin DOMAIN OFFSETS THEN Outcome(st, "raise")  \* KeyError
    ELSE LET offset     == OFFSETS[name][1]
             size       == OFFSETS[name][2]
             abs_offset == st.setup_base[1] + offset
         IN  IF size = 1 THEN patch_byte(st, abs_offset, value)
             ELSE IF size = 2 THEN patch_word(st, abs_offset, value)
             ELSE Outcome(st, "fail")

\* success &= <second call>: both calls run unless the first one raises
AndAlso(r1, r2) ==
    IF r1.ret = "raise" THEN r1
    ELSE IF r2.ret = "raise" THEN r2
    ELSE [r2 EXCEPT !.ret = IF r1.ret = "ok" /\ r2.ret = "ok" THEN "ok"
                             ELSE "fail"]

set_power_limit(st, name, watts) ==
    LET encoded == encode_power_limit(watts)
        r1 == patch_setup_offset(st, LowName(name), encoded[1])
        r2 == patch_setup_offset(r1, HighName(name), encoded[2])
    IN  AndAlso(r1, r2)

set_voltage_offset(st, name_prefix, mv) ==
    LET encoded == encode_voltage_offset(mv)
        r1 == patch_setup_offset(st, LowName(name_prefix), encoded[1])
        r2 == patch_setup_offset(r1, HighName(name_prefix), encoded[2])
    IN  AndAlso(r1, r2)

locks == <<"CfgLk", "OcLk", "PlLk", "BiosLk", "PkgLk", "TdpLk">>

unlock_all(st) ==
    LET RECURSIVE Upto(_)
        Upto(k) == IF k = 0 THEN Outcome(st, "ok")
                   ELSE LET r == Upto(k - 1)
                        IN  IF r.ret = "raise" THEN r
                            ELSE AndAlso(r, patch_setup_offset(r, locks[k], 0))
    IN  Upto(Len(locks))

\* set_hap_bit taking bit 17 for the HAP bit
set_hap_bit_bit17(st, enable, pch_offset) ==
    IF pch_offset + 4 > Len(st.data) THEN Outcome(st, "fail")
    ELSE LET current == UnpackI(st.data, pch_offset)
             new_val == IF enable THEN WithBitI(current, 17, 1)
                        ELSE WithBitI(current, 17, 0)
         IN  IF current = new_val THEN Outcome(st, "ok")
             ELSE LET r == patch_bytes(st, pch_offset, new_val)
                  IN  IF UnpackI(r.data, pch_offset) # new_val
                      THEN [r EXCEPT !.ret = "fail"]
                      ELSE [r EXCEPT !.ret = "ok"]

set_hap_bit(st, enable, pch_offset) ==
    IF pch_offset + 4 > Len(st.data) THEN Outcome(st, "fail")
    ELSE LET current == UnpackI(st.data, pch_offset)
             new_val == IF enable THEN WithBitI(current, 16, 1)
                        ELSE WithBitI(current, 16, 0)
         IN  IF current = new_val THEN Outcome(st, "ok")
             ELSE LET r == patch_bytes(st, pch_offset, new_val)
                  IN  IF UnpackI(r.data, pch_offset) # new_val
                      THEN [r EXCEPT !.ret = "fail"]
                      ELSE [r EXCEPT !.ret = "ok"]

inject_microcode(st, ucode_data, cpuid, inject_offset) ==
    IF Len(ucode_data) < 48 THEN Outcome(st, "fail")
    ELSE LET hdr_ver    == UnpackI(ucode_data, 0)
             proc_sig   == UnpackI(ucode_data, 12)
             total_size == UnpackI(ucode_data, 32)
         IN  IF hdr_ver # PackI(1) THEN Outcome(st, "fail")
             ELSE IF proc_sig # PackI(cpuid) THEN Outcome(st, "fail")
             ELSE IF PackI(Len(ucode_data)) # total_size
                  THEN Outcome(st, "fail")
             ELSE patch_bytes(st, inject_offset, ucode_data)

recalc_fv_checksum(st, fv_offset) ==
    IF fv_offset + 56 > Len(st.data) THEN Outcome(st, "fail")
    ELSE LET zeroed       == Splice(st.data, fv_offset + 50, <<0, 0>>)
             header       == Slice(zeroed, fv_offset, fv_offset + 56)
             new_checksum == checksum16(header)
         IN  [data |-> Splice(zeroed, fv_offset + 50, PackH(new_checksum)),
              patches |-> st.patches,
              setup_base |-> st.setup_base,
              ret |-> "ok"]


----------------------------------------------------------------------------
(* security.py: the SecurityAnalyzer.  Signatures are ASCII byte strings.  *)

keym_sig     == <<95, 95, 75, 69, 89, 77, 95, 95>>                \* __KEYM__
btgp_sig     == <<95, 95, 66, 84, 71, 80, 95, 95>>                \* __BTGP__
acm_sig      == <<65, 67, 77, 82>>                                \* ACMR
hashdxe_sig  == <<72, 97, 115, 104, 68, 120, 101>>                \* HashDxe
bootguarddxe_sig ==
    <<66, 111, 111, 116, 71, 117, 97, 114, 100, 68, 120, 101>>    \* BootGuardDxe
mn2_sig      == <<36, 77, 78, 50>>                                \* $MN2
man_sig      == <<36, 77, 65, 78>>                                \* $MAN
fpt_sig      == <<36, 70, 80, 84>>                                \* $FPT
pfat_sig     == <<95, 80, 70, 65, 84, 95>>                        \* _PFAT_
fd_sig       == <<90, 165, 240, 15>>          \* struct.pack('<I', 0x0FF0A55A)

\* a warning string: its severity prefix and what it is about
Warning(level, about) == [level |-> level, about |-> about]

\* SecurityStatus(): the defaults of the dataclass; <<>> stands for None
SecurityStatus ==
    [boot_guard_enabled |-> FALSE, boot_guard_verified |-> FALSE,
     boot_guard_measured |-> FALSE, boot_guard_policy |-> <<>>,
     me_region_found |-> FALSE, me_version |-> <<>>,
     pfat_present |-> FALSE, fd_locked |-> FALSE, acm_present |-> FALSE,
     safe_to_flash |-> TRUE, warnings |-> <<>>]

\* the KEYM part of _check_boot_guard: the first marker, its policy word
check_keym(d, s) ==
    LET keym_found == Find(d, keym_sig)
    IN  IF keym_found = 0 - 1 THEN s
        ELSE LET s1 == [s EXCEPT !.boot_guard_enabled = TRUE]
             IN  IF ~(keym_found + 32 < Len(d)) THEN s1
                 ELSE LET policy == UnpackI(d, keym_found + 16)
                          s2 == [s1 EXCEPT !.boot_guard_policy = policy]
                          s3 == IF BitI(policy, 0) = 1
                                THEN [s2 EXCEPT
                                        !.boot_guard_verified = TRUE,
                                        !.warnings = Append(@,
                                            Warning("CRITICAL",
                                                    "verified boot"))]
                                ELSE s2
                      IN  IF BitI(policy, 1) = 1
                          THEN [s3 EXCEPT
                                  !.boot_guard_measured = TRUE,
                                  !.warnings = Append(@,
                                      Warning("WARNING", "measured boot"))]
                          ELSE s3

\* one pattern of the HashDXE loop of _check_boot_guard
check_pattern(d, s, pattern) ==
    IF Find(d, pattern) # 0 - 1
    THEN [s EXCEPT !.warnings = Append(@, Warning("CRITICAL", "HashDXE"))]
    ELSE s

_check_boot_guard(d, s) ==
    LET s1 == check_keym(d, s)
        s2 == IF Find(d, btgp_sig) # 0 - 1
              THEN [s1 EXCEPT !.boot_guard_enabled = TRUE] ELSE s1
        s3 == IF Find(d, acm_sig) # 0 - 1
              THEN [s2 EXCEPT !.acm_present = TRUE] ELSE s2
    IN  check_pattern(d, check_pattern(d, s3, hashdxe_sig), bootguarddxe_sig)

\* the version fields read when the first signature found is $MN2
me_version_of(d, pos) ==
    <<UnpackH(d, pos + 24), UnpackH(d, pos + 26),
      UnpackH(d, pos + 28), UnpackH(d, pos + 30)>>

_check_me_region(d, s) ==
    LET mn2 == Find(d, mn2_sig)
    IN  IF mn2 # 0 - 1
        THEN IF mn2 + 32 < Len(d)
             THEN [s EXCEPT !.me_region_found = TRUE,
                            !.me_version = me_version_of(d, mn2)]
             ELSE [s EXCEPT !.me_region_found = TRUE]
        ELSE IF Find(d, man_sig) # 0 - 1 \/ Find(d, fpt_sig) # 0 - 1
             THEN [s EXCEPT !.me_region_found = TRUE]
             ELSE s

_check_pfat(d, s) ==
    IF Find(d, pfat_sig) # 0 - 1
    THEN [s EXCEPT !.pfat_present = TRUE,
                   !.warnings = Append(@, Warning("CRITICAL", "PFAT"))]
    ELSE s

_check_fd_lock(d, s) ==
    LET fd_pos == Find(d, fd_sig)
    IN  IF fd_pos # 0 - 1 /\ fd_pos + 256 < Len(d)
        THEN LET flmstr1 == UnpackI(d, fd_pos + 128)
             IN  \* flmstr1 & 0x0FFF != 0x0FFF
                 IF ~(flmstr1[1] = 255 /\ flmstr1[2] % 16 = 15)
                 THEN [s EXCEPT !.fd_locked = TRUE,
                                !.warnings = Append(@,
                                    Warning("WARNING", "descriptor lock"))]
                 ELSE s
        ELSE s

\* _determine_safety that also treats a locked descriptor and measured boot
\* as hard failures
determine_safety_strict(s) ==
    IF s.boot_guard_verified \/ s.pfat_present \/ s.fd_locked
       \/ s.boot_guard_measured
    THEN [s EXCEPT !.safe_to_flash = FALSE] ELSE s

_determine_safety(s) ==
    LET s1 == IF s.boot_guard_verified
              THEN [s EXCEPT !.safe_to_flash = FALSE] ELSE s
    IN  IF s1.pfat_present
        THEN [s1 EXCEPT !.safe_to_flash = FALSE] ELSE s1

\* SecurityAnalyzer.analyze on data d, the status being s when it is called
analyze(d, s) ==
    _determine_safety(
        _check_fd_lock(d,
            _check_pfat(d,
                _check_me_region(d,
                    _check_boot_guard(d, s)))))


----------------------------------------------------------------------------
(* image.py: the ImageParser's volume scan and Setup search.               *)

FVH_SIGNATURE == <<95, 70, 86, 72>>                                  \* _FVH
setup_sig     == <<83, 69, 84, 85, 80, 0>>                       \* SETUP\x00

\* a length no buffer of the model reaches: stands for every FvLength of
\* 2^30 or more, which the parser only ever compares with len(data)
HugeLength == 1073741824

\* struct.unpack('<Q', header[0x20:0x28]) of the volume header at offset
FvLength(d, offset) ==
    LET q == Slice(d, offset + 32, offset + 40)
    IN  IF q[4] >= 64 \/ q[5] # 0 \/ q[6] # 0 \/ q[7] # 0 \/ q[8] # 0
        THEN HugeLength
        ELSE q[1] + 256 * q[2] + 65536 * q[3] + 16777216 * q[4]

\* a variant of _parse_volume_header without the test of offset + fv_length
parse_volume_header_unbounded(d, offset) ==
    IF offset + 56 > Len(d) THEN <<>>
    ELSE <<[offset |-> offset, size |-> FvLength(d, offset),
            files |-> <<>>]>>

\* _parse_volume_header: <<>> is None, <<v>> the FirmwareVolume v
_parse_volume_header(d, offset) ==
    IF offset + 56 > Len(d) THEN <<>>
    ELSE LET fv_length == FvLength(d, offset)
         IN  IF offset + fv_length > Len(d) THEN <<>>
             ELSE <<[offset |-> offset, size |-> fv_length,
                     files |-> <<>>]>>

\* _find_volumes: the scan from cursor i with the volumes found so far.
\* A volume of declared length 0 leaves the cursor where it is: the loop
\* never ends (hang).
RECURSIVE ScanVolumes(_, _, _)
ScanVolumes(d, i, found) ==
    IF ~(i < Len(d) - 48) THEN [volumes |-> found, hang |-> FALSE]
    ELSE IF Slice(d, i, i + 4) = FVH_SIGNATURE
            /\ _parse_volume_header(d, i) # <<>>
         THEN LET vol == _parse_volume_header(d, i)[1]
              IN  IF vol.size = 0
                  THEN [volumes |-> Append(found, vol), hang |-> TRUE]
                  ELSE ScanVolumes(d, i + vol.size, Append(found, vol))
         ELSE ScanVolumes(d, i + 16, found)

_find_volumes(d) == ScanVolumes(d, 0, <<>>)

\* _find_setup_data: the first i in range(0, len - 6, 4) holding the
\* signature; <<>> is None
_find_setup_data(d) ==
    LET hits == {i \in 0..(Len(d) - 7) :
                    i % 4 = 0 /\ Slice(d, i, i + 6) = setup_sig}
    IN  IF hits = {} THEN <<>>
        ELSE <<CHOOSE i \in hits : \A k \in hits : i <= k>>

\* _parse_file(data, offset) on a volume's bytes: <<>> is None, <<f>> the
\* FirmwareFile f, its offset still relative to the volume
_parse_file(vd, offset) ==
    IF offset + 24 > Len(vd) THEN <<>>
    ELSE LET file_type == At(vd, offset + 18)
             file_size == At(vd, offset + 20) + 256 * At(vd, offset + 21)
                          + 65536 * At(vd, offset + 22)
         IN  IF file_size < 24 \/ offset + file_size > Len(vd) THEN <<>>
             ELSE <<[offset |-> offset, size |-> file_size,
                     file_type |-> file_type]>>

\* _parse_volume_files: the walk from the volume-relative cursor offset with
\* the files found so far; a sentinel GUID or a record _parse_file refuses
\* ends the walk of this volume
RECURSIVE WalkFiles(_, _, _, _)
WalkFiles(vd, vol_offset, offset, files) ==
    IF ~(offset < Len(vd) - 24) THEN files
    ELSE IF Slice(vd, offset, offset + 16) \in {Fill(16, 0), Fill(16, 255)}
    THEN files
    ELSE IF _parse_file(vd, offset) = <<>> THEN files
    ELSE LET file == _parse_file(vd, offset)[1]
         IN  WalkFiles(vd, vol_offset,
                       ((offset + file.size + 7) \div 8) * 8,
                       Append(files,
                              [file EXCEPT !.offset = @ + vol_offset]))

\* _parse_volume_files(vol): the volume with its files indexed
_parse_volume_files(d, vol) ==
    [vol EXCEPT !.files =
        WalkFiles(Slice(d, vol.offset, vol.offset + vol.size), vol.offset,
                  72, <<>>)]

\* ImageParser(data).parse(): ret is "ok" (True), "fail" (False) or "hang"
parse(d) ==
    LET scan == _find_volumes(d)
    IN  IF scan.hang
        THEN [ret |-> "hang", volumes |-> scan.volumes, setup_offset |-> <<>>]
        ELSE IF scan.volumes = <<>>
        THEN [ret |-> "fail", volumes |-> <<>>, setup_offset |-> <<>>]
        ELSE [ret |-> "ok",
              volumes |-> [k \in 1..Len(scan.volumes) |->
                              _parse_volume_files(d, scan.volumes[k])],
              setup_offset |-> _find_setup_data(d)]

----------------------------------------------------------------------------
(* config.py / engine.py: a BIOSConfig and what apply_config does with it. *)
(* An optional field is <<>> (None) or <<v>>.                              *)

\* BIOSConfig(): the defaults
BIOSConfig ==
    [cfg_lock |-> 0,
     pl1 |-> <<>>, pl2 |-> <<>>, pl3 |-> <<>>, pl4 |-> <<>>, tau |-> <<>>,
     vcore_offset |-> <<>>, ring_offset |-> <<>>, sa_offset |-> <<>>,
     io_offset |-> <<>>,
     turbo_1c |-> <<>>, turbo_2c |-> <<>>, turbo_3c |-> <<>>,
     turbo_4c |-> <<>>, turbo_5c |-> <<>>, turbo_6c |-> <<>>,
     c_states |-> <<>>, c1e |-> <<>>, pkg_c_state |-> <<>>,
     above_4g |-> <<>>, resizable_bar |-> <<>>, me_disable |-> <<>>]

Step(kind, name, value) == [kind |-> kind, name |-> name, value |-> value]

\* the Patcher call made for an optional field, when the field is set
Power(field, name)   == IF field = <<>> THEN <<>>
                        ELSE <<Step("power", name, field[1])>>
Voltage(field, name) == IF field = <<>> THEN <<>>
                        ELSE <<Step("voltage", name, field[1])>>
Setup(field, name)   == IF field = <<>> THEN <<>>
                        ELSE <<Step("setup", name, field[1])>>
Enable(field, name)  == IF field = <<>> THEN <<>>
                        ELSE <<Step("setup", name, 1)>>

\* the Patcher calls apply_config makes for config, in the order of the code
ConfigSteps(config) ==
    (IF config.cfg_lock = 0 THEN <<Step("unlock", "", 0)>> ELSE <<>>)
    \o Power(config.pl1, "Pl1") \o Enable(config.pl1, "Pl1En")
    \o Power(config.pl2, "Pl2") \o Enable(config.pl2, "Pl2En")
    \o Power(config.pl3, "Pl3")
    \o Power(config.pl4, "Pl4")
    \o Setup(config.tau, "Tau")
    \o Voltage(config.vcore_offset, "Vc")
    \o Voltage(config.ring_offset, "Rg")
    \o Voltage(config.sa_offset, "Sa")
    \o Voltage(config.io_offset, "Io")
    \o Setup(config.turbo_1c, "R1") \o Setup(config.turbo_2c, "R2")
    \o Setup(config.turbo_3c, "R3") \o Setup(config.turbo_4c, "R4")
    \o Setup(config.turbo_5c, "R5") \o Setup(config.turbo_6c, "R6")
    \o Setup(config.c_states, "CSt") \o Setup(config.c1e, "C1E")
    \o Setup(config.pkg_c_state, "PkgC")
    \o Setup(config.above_4g, "A4G")
    \o Setup(config.resizable_bar, "RBar")
    \o (IF config.me_disable = <<1>> THEN <<Step("hap", "", 1)>> ELSE <<>>)

\* one of those calls; its return value is not looked at by apply_config
RunStep(st, step) ==
    CASE step.kind = "unlock"  -> unlock_all(st)
      [] step.kind = "power"   -> set_power_limit(st, step.name, step.value)
      [] step.kind = "voltage" -> set_voltage_offset(st, step.name, step.value)
      [] step.kind = "setup"   -> patch_setup_offset(st, step.name, step.value)
      [] step.kind = "hap"     -> set_hap_bit(st, TRUE, 13396)

\* the calls in order; an exception ends apply_config where it is raised
RECURSIVE RunSteps(_, _)
RunSteps(st, steps) ==
    IF steps = <<>> THEN Outcome(st, "ok")
    ELSE LET r == RunStep(st, Head(steps))
         IN  IF r.ret = "raise" THEN r ELSE RunSteps(r, Tail(steps))


----------------------------------------------------------------------------
(* engine.py: the PatchEngine's fields and files.                          *)

\* EngineStats(): the defaults of the dataclass
EngineStats ==
    [input_size |-> 0, output_size |-> 0, volumes_found |-> 0,
     patches_applied |-> 0, boot_guard |-> FALSE, me_found |-> FALSE,
     safe_to_flash |-> TRUE, warnings |-> <<>>]

\* a path that names no file, and a file holding bytes b
NoFile == [exists |-> FALSE, bytes |-> <<>>]
File(b) == [exists |-> TRUE, bytes |-> b]

\* the output_path argument of save
output_path == "out.bin"

\* a variant of temp_path that names the output path itself
temp_path_same(path) == path

\* save: temp_path = output_path + '.tmp'
temp_path(path) == path \o ".tmp"

\* the paths save can touch
Paths == {output_path, temp_path(output_path)}

\* the files at the output path and at the temporary path
outFile == fs[output_path]
tmpFile == fs[temp_path(output_path)]

\* Path(path).write_bytes(b): the file is opened truncated, then written;
\* when the write raises, the truncated file stays
write_bytes(files, path, b, written) ==
    [files EXCEPT ![path] = IF written THEN File(b) ELSE File(<<>>)]

\* a variant of unlink that leaves the file in place
unlink_skipped(files, path) == files

\* Path(path).unlink()
unlink(files, path) == [files EXCEPT ![path] = NoFile]

\* shutil.move(src, dst): dst takes the file, src names nothing after
move(files, src, dst) ==
    [p \in DOMAIN files |->
        IF p = dst THEN files[src]
        ELSE IF p = src THEN NoFile ELSE files[p]]

\* a variant of rejected that accepts whatever the parser returned
rejected_never(r) == FALSE

\* save: if not verify_parser.parse()
rejected(r) == r.ret # "ok"

\* a variant of gate in which force does not override the verdict
gate_unforced(st, force) == IF ~st.safe_to_flash THEN "fail" ELSE "ok"

\* preflight: the hard fail on critical issues, and the return value
gate(st, force) == IF ~st.safe_to_flash /\ ~force THEN "fail" ELSE "ok"

\* PatchEngine() with nothing loaded and no output written
EngineUnused ==
    /\ inFile = <<>>
    /\ hasData = FALSE
    /\ data = <<>>
    /\ hasParser = FALSE
    /\ volumes = <<>>
    /\ setup_offset = <<>>
    /\ hasPatcher = FALSE
    /\ stats = EngineStats
    /\ fs = [p \in Paths |-> NoFile]
    /\ pc = "idle"
    /\ outBefore = NoFile
    /\ dataBefore = <<>>
    /\ passed = FALSE
    /\ refused = FALSE
    /\ saved = FALSE
    /\ injected = FALSE


----------------------------------------------------------------------------
(* The Patcher driven by an arbitrary caller: specification SpecPatcher.   *)

\* bounds of the Patcher runs
MaxCalls == 2
PBufLen == 192

\* the images a Patcher is constructed with: erased flash and zeroed storage
PatcherImages == {Fill(PBufLen, 255), Fill(PBufLen, 0)}

\* a 48-byte microcode update: header version 1, CPUID 0x906EA, total size 48
GoodUcode ==
    Splice(Splice(Splice(Fill(48, 0), 0, PackI(1)), 12, PackI(591594)),
           32, PackI(48))

\* no SecurityAnalyzer has been constructed
AnalyzerUnused ==
    /\ secData = <<>>
    /\ status = SecurityStatus
    /\ analyses = 0

St == [data |-> pdata, patches |-> patches, setup_base |-> setup_base]

InitPatcher ==
    /\ initData \in PatcherImages
    /\ pdata = initData
    /\ patches = <<>>
    /\ setup_base = <<>>
    /\ prevData = initData
    /\ prevPatches = <<>>
    /\ last = [op |-> "init", off |-> 0, arg |-> <<>>, ret |-> "ok"]
    /\ repeat = FALSE
    /\ calls = 0
    /\ AnalyzerUnused
    /\ EngineUnused
    /\ CodecUnused
    /\ IfrUnused
    /\ ParserUnused

\* one call of a Patcher method with outcome r
Call(op, off, arg, r) ==
    /\ calls < MaxCalls
    /\ calls' = calls + 1
    /\ pdata' = r.data
    /\ patches' = r.patches
    /\ setup_base' = r.setup_base
    /\ prevData' = pdata
    /\ prevPatches' = patches
    /\ last' = [op |-> op, off |-> off, arg |-> arg, ret |-> r.ret]
    /\ repeat' = (last.op = op /\ last.off = off /\ last.arg = arg)
    /\ UNCHANGED <<initData, analyzerVars, engineVars, pureVars, ifrVars>>

SetSetupBase ==
    \E offset \in {4} :
        Call("set_setup_base", offset, <<>>,
             [St EXCEPT !.setup_base = <<offset>>] @@ [ret |-> "ok"])

PatchByte ==
    \E offset \in {3, PBufLen}, value \in {7, 256} :
        Call("patch_byte", offset, <<value>>, patch_byte(St, offset, value))

PatchWord ==
    \E offset \in {2, PBufLen - 1}, value \in {65543} :
        Call("patch_word", offset, <<value>>, patch_word(St, offset, value))

PatchBytes ==
    \E offset \in {1, PBufLen - 2}, new_data \in {<<7, 7, 7>>} :
        Call("patch_bytes", offset, new_data,
             patch_bytes(St, offset, new_data))

PatchSetupOffset ==
    \E name \in {"Tau", "MFreq", "NoSuchField"}, value \in {300} :
        Call(name, 0, <<value>>, patch_setup_offset(St, name, value))

SetPowerLimit ==
    \E name \in {"Pl1"}, watts \in {65} :
        Call("set_power_limit", 0, <<watts>>,
             set_power_limit(St, name, watts))

SetVoltageOffset ==
    \E name \in {"Vc"}, mv \in {0 - 50} :
        Call("set_voltage_offset", 0, <<mv>>,
             set_voltage_offset(St, name, mv))

UnlockAll == Call("unlock_all", 0, <<>>, unlock_all(St))

SetHapBit ==
    \E enable \in BOOLEAN, pch_offset \in {0, PBufLen - 4, PBufLen - 3} :
        Call("set_hap_bit", pch_offset, <<IF enable THEN 1 ELSE 0>>,
             set_hap_bit(St, enable, pch_offset))

InjectMicrocode ==
    \E cpuid \in {591594, 591595}, inject_offset \in {16, PBufLen - 8} :
        Call("inject_microcode", inject_offset, <<cpuid>>,
             inject_microcode(St, GoodUcode, cpuid, inject_offset))

RecalcFvChecksum ==
    \E fv_offset \in {0, PBufLen - 55} :
        Call("recalc_fv_checksum", fv_offset, <<>>,
             recalc_fv_checksum(St, fv_offset))

NextPatcher ==
    \/ SetSetupBase
    \/ PatchByte
    \/ PatchWord
    \/ PatchBytes
    \/ PatchSetupOffset
    \/ SetPowerLimit
    \/ SetVoltageOffset
    \/ UnlockAll
    \/ SetHapBit
    \/ InjectMicrocode
    \/ RecalcFvChecksum

SpecPatcher == InitPatcher /\ [][NextPatcher]_vars


----------------------------------------------------------------------------
(* Properties of the Patcher, checked under SpecPatcher.                   *)

\* the most recent call is one of the three write primitives
IsPrimitive == last.op \in {"patch_byte", "patch_word", "patch_bytes"}

\* the number of bytes the most recent primitive call addresses
PrimLen == IF last.op = "patch_byte" THEN 1
           ELSE IF last.op = "patch_word" THEN 2
           ELSE Len(last.arg)

\* the bytes the most recent primitive call asks the region to hold
PrimTarget == IF last.op = "patch_byte" THEN last.arg
              ELSE IF last.op = "patch_word" THEN PackH(last.arg[1] % 65536)
              ELSE last.arg

\* the most recent primitive call is in bounds and its value fits its width
PrimInBounds ==
    /\ IsPrimitive
    /\ last.off + PrimLen <= Len(prevData)
    /\ last.op = "patch_byte" => last.arg[1] \in Byte

\* ledger records appended by the most recent call
Appended == Len(patches) - Len(prevPatches)

\* C8: patch idempotence.  An in-bounds patch_byte / patch_word /
\* patch_bytes call returns success and appends exactly one ledger record
\* when the region differed from the target and none when it matched; a call
\* that repeats the call before it appends nothing and leaves the buffer as
\* the first call left it.
C8_PatchIdempotent ==
    PrimInBounds =>
        /\ last.ret = "ok"
        /\ Appended = IF Slice(prevData, last.off, last.off + PrimLen)
                          = PrimTarget THEN 0 ELSE 1
        /\ repeat => /\ Appended = 0
                     /\ patches = prevPatches
                     /\ pdata = prevData

\* a second patch_byte with the arguments of the first, which changed a byte
C8_Witness ==
    /\ repeat
    /\ last.op = "patch_byte"
    /\ PrimInBounds
    /\ last.ret = "ok"
    /\ Len(patches) = 1
    /\ pdata # initData

\* C9: a primitive whose offset + length exceeds the buffer size returns
\* failure and leaves buffer and ledger unchanged; a primitive that returns
\* success keeps the buffer length and changes no byte outside
\* [offset, offset + length).
C9_BoundsChecked ==
    IsPrimitive =>
        /\ last.off + PrimLen > Len(prevData) =>
              /\ last.ret = "fail"
              /\ pdata = prevData
              /\ patches = prevPatches
        /\ last.ret = "ok" =>
              /\ Len(pdata) = Len(prevData)
              /\ \A i \in 0..(Len(prevData) - 1) :
                    (i < last.off \/ i >= last.off + PrimLen)
                        => At(pdata, i) = At(prevData, i)

\* a patch_word whose second byte lies beyond the buffer was refused
C9_Witness ==
    /\ last.op = "patch_word"
    /\ last.off + 1 = Len(prevData)
    /\ last.ret = "fail"
    /\ calls > 0

\* the ledger's new bytes written in ledger order over an image
RECURSIVE Replay(_, _)
Replay(image, ledger) ==
    IF ledger = <<>> THEN image
    ELSE Replay(Splice(image, Head(ledger).offset, Head(ledger).new_data),
                Tail(ledger))

\* C10: every mutation of the buffer is tracked in the ledger: replaying the
\* ledger's new bytes in order over the initial image gives the buffer.
C10_LedgerTracksBuffer == Replay(initData, patches) = pdata


\* the sum of the little-endian 16-bit words of d, an even number of bytes
RECURSIVE WordSum(_)
WordSum(d) ==
    IF Len(d) < 2 THEN 0
    ELSE d[1] + 256 * d[2] + WordSum(SubSeq(d, 3, Len(d)))

\* C15: checksum closure.  After recalc_fv_checksum(v) with v + 0x38 within
\* the buffer the 28 words of the header [v, v + 0x38) sum to 0 modulo
\* 0x10000 and no byte other than v + 0x32 and v + 0x33 has changed; with
\* v + 0x38 beyond the buffer the call fails and the buffer is unchanged.
C15_ChecksumClosure ==
    last.op = "recalc_fv_checksum" =>
        IF last.off + 56 > Len(prevData)
        THEN /\ last.ret = "fail"
             /\ pdata = prevData
        ELSE /\ last.ret = "ok"
             /\ Len(pdata) = Len(prevData)
             /\ Len(Slice(pdata, last.off, last.off + 56)) = 2 * 28
             /\ WordSum(Slice(pdata, last.off, last.off + 56)) % 65536 = 0
             /\ \A i \in 0..(Len(prevData) - 1) :
                    i \notin {last.off + 50, last.off + 51}
                        => At(pdata, i) = At(prevData, i)

\* the checksum of a header that an earlier patch had changed was rewritten
C15_Witness ==
    /\ last.op = "recalc_fv_checksum"
    /\ last.ret = "ok"
    /\ patches # <<>>
    /\ prevData # initData
    /\ pdata # prevData
    /\ Slice(pdata, last.off + 50, last.off + 52) # <<0, 0>>

----------------------------------------------------------------------------
(* The ledger under the three write primitives and the operations that   *)
(* write through them: specification SpecLedger.                           *)

NextLedger ==
    \/ SetSetupBase
    \/ PatchByte
    \/ PatchWord
    \/ PatchBytes
    \/ PatchSetupOffset
    \/ SetPowerLimit
    \/ SetVoltageOffset
    \/ UnlockAll
    \/ SetHapBit
    \/ InjectMicrocode

SpecLedger == InitPatcher /\ [][NextLedger]_vars

\* every record's old bytes are what its range held just before the record
\* was written, the image being rebuilt record by record from the start
RECURSIVE PreImages(_, _)
PreImages(image, ledger) ==
    IF ledger = <<>> THEN TRUE
    ELSE LET rec == Head(ledger)
         IN  /\ rec.applied
             /\ Len(rec.old_data) = Len(rec.new_data)
             /\ rec.old_data = Slice(image, rec.offset,
                                     rec.offset + Len(rec.new_data))
             /\ PreImages(Splice(image, rec.offset, rec.new_data),
                          Tail(ledger))

\* the ledger's old bytes written back over a buffer, last record first
RECURSIVE Undo(_, _)
Undo(buffer, ledger) ==
    IF ledger = <<>> THEN buffer
    ELSE Undo(Splice(buffer, ledger[Len(ledger)].offset,
                     ledger[Len(ledger)].old_data),
              SubSeq(ledger, 1, Len(ledger) - 1))

\* two records whose byte ranges share a byte
Overlap(r1, r2) ==
    /\ r1.offset < r2.offset + Len(r2.new_data)
    /\ r2.offset < r1.offset + Len(r1.new_data)

\* C11: after any sequence of patch_byte / patch_word / patch_bytes calls,
\* overlapping ones included, each ledger record's old bytes are the
\* content of its range just before the record was written, and writing the
\* old bytes back in reverse ledger order restores the initial image.
C11_LedgerUndoRestores ==
    /\ PreImages(initData, patches)
    /\ Undo(pdata, patches) = initData

\* two applied records overlap, and the later one's old bytes are bytes the
\* earlier one wrote
C11_Witness ==
    /\ Len(patches) = 2
    /\ Overlap(patches[1], patches[2])
    /\ patches[2].old_data
           # Slice(initData, patches[2].offset,
                   patches[2].offset + Len(patches[2].new_data))
    /\ pdata # initData

----------------------------------------------------------------------------
(* The SecurityAnalyzer on a family of buffers: specification SpecAnalyzer.*)

\* bounds of the analyzer runs: buffer lengths and analyze() calls
SecLen == 64
FdLen == 260
MaxAnalyses == 1

\* b with the bytes sig written at offset off (Python offset)
Put(b, off, sig) == Splice(b, off, sig)

\* the marker offsets tried: the start, the last offset whose policy word
\* is read, the first whose is not, the last whose word fits, the very end
KeymOffsets == {0, SecLen - 33, SecLen - 32, SecLen - 20, SecLen - 8}

\* zero bytes with a key manifest at k, its policy word when it fits the
\* buffer, and optionally the PFAT marker
KeymBuffer(k, policy, pfat) ==
    LET b1 == Put(Fill(SecLen, 0), k, keym_sig)
        b2 == IF k + 20 <= SecLen THEN Put(b1, k + 16, PackI(policy)) ELSE b1
    IN  IF pfat THEN Put(b2, 8, pfat_sig) ELSE b2

\* two key manifests: the first with policy p1, the second with policy p2
TwoKeymBuffer(p1, p2) ==
    Put(Put(KeymBuffer(0, p1, FALSE), 24, keym_sig), 40, PackI(p2))

\* one other signature at offset 16, optionally with the PFAT marker
SigBuffer(sig, pfat) ==
    LET b1 == Put(Fill(SecLen, 0), 16, sig)
    IN  IF pfat THEN Put(b1, 8, pfat_sig) ELSE b1

\* an ME manifest with version 11.8.50.3399 at offset 0
Mn2Buffer ==
    Put(Put(Fill(SecLen, 0), 0, mn2_sig), 24,
        PackH(11) \o PackH(8) \o PackH(50) \o PackH(3399))

\* a flash descriptor at offset 0 whose FLMSTR1 low word is w
FdBuffer(w, pfat) ==
    LET b1 == Put(Put(Fill(FdLen, 0), 0, fd_sig), 128, PackH(w))
    IN  IF pfat THEN Put(b1, 8, pfat_sig) ELSE b1

AnalyzerBuffers ==
    {KeymBuffer(k, policy, pfat) :
        k \in KeymOffsets, policy \in 0..3, pfat \in BOOLEAN}
    \cup {TwoKeymBuffer(p1, p2) : p1 \in {0, 2}, p2 \in {1, 3}}
    \cup {SigBuffer(sig, pfat) :
            sig \in {btgp_sig, acm_sig, hashdxe_sig, bootguarddxe_sig,
                     man_sig, fpt_sig, <<>>},
            pfat \in BOOLEAN}
    \cup {Mn2Buffer}
    \cup {FdBuffer(w, pfat) : w \in {4095, 65535, 0, 255}, pfat \in BOOLEAN}

\* no Patcher has been constructed
PatcherUnused ==
    /\ initData = <<>>
    /\ pdata = <<>>
    /\ patches = <<>>
    /\ setup_base = <<>>
    /\ prevData = <<>>
    /\ prevPatches = <<>>
    /\ last = [op |-> "init", off |-> 0, arg |-> <<>>, ret |-> "ok"]
    /\ repeat = FALSE
    /\ calls = 0

\* SecurityAnalyzer(data)
InitAnalyzer ==
    /\ secData \in AnalyzerBuffers
    /\ status = SecurityStatus
    /\ analyses = 0
    /\ PatcherUnused
    /\ EngineUnused
    /\ CodecUnused
    /\ IfrUnused
    /\ ParserUnused

\* SecurityAnalyzer.analyze()
Analyze ==
    /\ analyses < MaxAnalyses
    /\ analyses' = analyses + 1
    /\ status' = analyze(secData, status)
    /\ UNCHANGED <<secData, patcherVars, engineVars, pureVars, ifrVars>>

NextAnalyzer == Analyze

SpecAnalyzer == InitAnalyzer /\ [][NextAnalyzer]_vars

\* C3: the status analyze returns has safe_to_flash = ~(boot_guard_verified
\* \/ pfat_present), whatever else was detected.
C3_SafetyDerivation ==
    analyses > 0 =>
        status.safe_to_flash
            = ~(status.boot_guard_verified \/ status.pfat_present)

\* analyze found measured boot (and no verified boot, no PFAT): still safe
C3_Witness ==
    /\ analyses > 0
    /\ status.boot_guard_measured
    /\ ~status.boot_guard_verified
    /\ ~status.pfat_present
    /\ status.safe_to_flash

\* the 32-bit policy word at k + 0x10 lies inside d and has bit 0 set
VerifiedManifestAt(d, k) ==
    /\ k + 8 <= Len(d)
    /\ Slice(d, k, k + 8) = keym_sig
    /\ k + 20 <= Len(d)
    /\ BitI(UnpackI(d, k + 16), 0) = 1

\* C4: a buffer holding __KEYM__ at some k whose policy word lies inside the
\* buffer with bit 0 set is analysed as boot_guard_enabled,
\* boot_guard_verified and not safe_to_flash.
C4_VerifiedBootDetected ==
    (analyses > 0 /\ \E k \in 0..(Len(secData) - 1) :
                        VerifiedManifestAt(secData, k))
        => /\ status.boot_guard_enabled
           /\ status.boot_guard_verified
           /\ ~status.safe_to_flash


----------------------------------------------------------------------------
(* The domain encodings of utils.py: specification SpecCodec.              *)

\* bounds of the round trips: watts in 1..MaxWatts, mV in -MaxMv..MaxMv;
\* a behaviour computes one round trip, the functions keeping no state
MaxWatts == 8191
MaxMv == 1000

InitCodec ==
    /\ CodecUnused
    /\ IfrUnused
    /\ ParserUnused
    /\ PatcherUnused
    /\ AnalyzerUnused
    /\ EngineUnused

\* decode_power_limit(encode_power_limit(watts))
PowerRoundTrip ==
    \E watts \in 1..MaxWatts :
        /\ codec.fn = "none"
        /\ codec' = [fn |-> "power", input |-> watts,
                     encoded |-> encode_power_limit(watts),
                     decoded |-> decode_power_limit(
                                     encode_power_limit(watts))]
        /\ UNCHANGED <<parserData, parsed, patcherVars, analyzerVars,
                       engineVars, ifrVars>>

\* decode_voltage_offset(encode_voltage_offset(mv))
VoltageRoundTrip ==
    \E mv \in (0 - MaxMv)..MaxMv :
        /\ codec.fn = "none"
        /\ codec' = [fn |-> "voltage", input |-> mv,
                     encoded |-> encode_voltage_offset(mv),
                     decoded |-> decode_voltage_offset(
                                     encode_voltage_offset(mv))]
        /\ UNCHANGED <<parserData, parsed, patcherVars, analyzerVars,
                       engineVars, ifrVars>>

NextCodec ==
    \/ PowerRoundTrip
    \/ VoltageRoundTrip

SpecCodec == InitCodec /\ [][NextCodec]_vars

\* C12: power-limit round trip: decoding the encoding of w gives w, for
\* every w in 1..MaxWatts.
C12_PowerRoundTrip ==
    codec.fn = "power" => codec.decoded = codec.input

\* C13: a wattage whose watts * 1000 * 8 does not fit in 16 bits encodes to
\* the saturated value FF FF, not to the value reduced modulo 2^16.
C13_PowerClamps ==
    (codec.fn = "power" /\ codec.input * 1000 * 8 > 65535) =>
        codec.encoded = PackH(65535)

\* C14: voltage round trip: the encoding is the signed 16-bit value of
\* mv * 1.024 truncated, and decoding it differs from mv by at most 1, for
\* every mv in -MaxMv..MaxMv.
C14_VoltageRoundTrip ==
    codec.fn = "voltage" =>
        /\ UnpackSignedH(codec.encoded, 0)
               = TruncDiv(codec.input * 1024, 1000)
        /\ codec.decoded - codec.input \in {0 - 1, 0, 1}

\* an undervolt whose round trip is off by exactly one millivolt
C14_Witness ==
    /\ codec.fn = "voltage"
    /\ codec.input < 0 - 100
    /\ codec.encoded # PackH(0)
    /\ codec.decoded = codec.input + 1

----------------------------------------------------------------------------
(* The ImageParser on a family of buffers: specification SpecParser.       *)

\* the length of the buffers parsed, and the length of the first of two
\* volumes
PLen == 256
VolLen == 128

\* b with a volume header at offset O declaring length L: the signature at
\* O, the 64-bit length at O + 0x20
Header(b, O, L) == Put(Put(b, O, FVH_SIGNATURE), O + 32, PackI(L) \o PackI(0))

\* a 24-byte file header: a GUID that is no sentinel, the type at 0x12, the
\* 24-bit size at 0x14
FileRecord(size, type) ==
    [i \in 1..24 |->
        IF i = 1 THEN 1
        ELSE IF i = 19 THEN type
        ELSE IF i = 21 THEN size % 256
        ELSE IF i = 22 THEN (size \div 256) % 256
        ELSE 0]

\* one header at O declaring L in a zeroed buffer; with inner, a second
\* header 48 bytes further on, inside the first one's range when L > 48
OneVolume(O, L, inner) ==
    LET b == Header(Fill(PLen, 0), O, L)
    IN  IF inner THEN Header(b, O + 48, 56) ELSE b

\* what the file area of the first volume holds, by kind
FirstFiles(b, kind) ==
    CASE kind = "none"  -> b
      [] kind = "good"  -> Put(b, 72, FileRecord(24, 7))
      [] kind = "two"   -> Put(Put(b, 72, FileRecord(24, 7)),
                               96, FileRecord(24, 2))
      [] kind = "small" -> Put(b, 72, FileRecord(16, 7))
      [] kind = "big"   -> Put(b, 72, FileRecord(VolLen - 72 + 1, 7))
      [] kind = "ones"  -> Put(b, 72, Fill(16, 255))

FileKinds == {"none", "good", "two", "small", "big", "ones"}

\* two adjacent volumes, the second with one driver file, the first with
\* the files of kind; optionally the Setup signature at offset 40
TwoVolumes(kind, setup) ==
    LET b1 == Header(Header(Fill(PLen, 0), 0, VolLen),
                     VolLen, PLen - VolLen)
        b2 == Put(FirstFiles(b1, kind), VolLen + 72, FileRecord(24, 7))
    IN  IF setup THEN Put(b2, 40, setup_sig) ELSE b2

\* no volume header at all
NoVolume(setup) ==
    IF setup THEN Put(Fill(PLen, 0), 40, setup_sig) ELSE Fill(PLen, 0)

ParserBuffers ==
    UNION {{OneVolume(O, L, inner) :
                L \in {0, 56, 100, VolLen, PLen - O, PLen - O + 1},
                inner \in BOOLEAN} :
           O \in {0, 8, 16, 64}}
    \cup {TwoVolumes(kind, setup) : kind \in FileKinds, setup \in BOOLEAN}
    \cup {NoVolume(setup) : setup \in BOOLEAN}

\* ImageParser(data)
InitParser ==
    /\ parserData \in ParserBuffers
    /\ parsed = [ret |-> "none", volumes |-> <<>>, setup_offset |-> <<>>]
    /\ CodecUnused
    /\ IfrUnused
    /\ PatcherUnused
    /\ AnalyzerUnused
    /\ EngineUnused

\* ImageParser.parse(), once per parser
Parse ==
    /\ parsed.ret = "none"
    /\ parsed' = parse(parserData)
    /\ UNCHANGED <<parserData, codec, patcherVars, analyzerVars, engineVars,
                   ifrVars>>

NextParser == Parse

SpecParser == InitParser /\ [][NextParser]_vars

\* d holds at O a well-formed volume header: the signature, a declared
\* length of at least the header's 0x38 bytes, and O + length within d
WellFormedAt(d, O) ==
    /\ O + 56 <= Len(d)
    /\ Slice(d, O, O + 4) = FVH_SIGNATURE
    /\ FvLength(d, O) >= 56
    /\ O + FvLength(d, O) <= Len(d)

\* the well-formed header at O does not lie inside an earlier one's range
TopLevelAt(d, O) ==
    /\ WellFormedAt(d, O)
    /\ \A Q \in 0..(O - 1) : WellFormedAt(d, Q) => Q + FvLength(d, Q) <= O

\* C16: volume bounds.  For every well-formed volume header of the buffer,
\* of length L at offset O and not inside an earlier volume, parsing yields
\* exactly one volume with offset O and size L, and no volume whose offset
\* lies strictly inside [O, O + L).
C16_VolumeBounds ==
    parsed.ret # "none" =>
        \A O \in 0..(Len(parserData) - 56) :
            TopLevelAt(parserData, O) =>
                /\ parsed.ret = "ok"
                /\ Cardinality({k \in 1..Len(parsed.volumes) :
                        /\ parsed.volumes[k].offset = O
                        /\ parsed.volumes[k].size
                               = FvLength(parserData, O)}) = 1
                /\ \A k \in 1..Len(parsed.volumes) :
                       ~(/\ parsed.volumes[k].offset > O
                         /\ parsed.volumes[k].offset
                                < O + FvLength(parserData, O))

\* the byte ranges of a volume's files lie inside the volume
FilesInside(vol) ==
    \A n \in 1..Len(vol.files) :
        /\ vol.files[n].size >= 24
        /\ vol.offset <= vol.files[n].offset
        /\ vol.files[n].offset + vol.files[n].size <= vol.offset + vol.size

\* C17: after parse returns, every volume lies within the buffer, the
\* volumes are in strictly increasing offset order and their byte ranges
\* neither overlap nor nest, and every indexed file has size >= 0x18 and
\* lies inside its volume.
C17_ParseIndexSound ==
    parsed.ret \in {"ok", "fail"} =>
        /\ \A k \in 1..Len(parsed.volumes) :
               /\ parsed.volumes[k].offset + parsed.volumes[k].size
                      <= Len(parserData)
               /\ FilesInside(parsed.volumes[k])
        /\ \A k \in 1..(Len(parsed.volumes) - 1) :
               /\ parsed.volumes[k].offset < parsed.volumes[k + 1].offset
               /\ parsed.volumes[k].offset + parsed.volumes[k].size
                      <= parsed.volumes[k + 1].offset

\* two volumes were indexed, the first with two files, the second with one
C17_Witness ==
    /\ parsed.ret = "ok"
    /\ Len(parsed.volumes) = 2
    /\ Len(parsed.volumes[1].files) = 2
    /\ Len(parsed.volumes[2].files) = 1
    /\ parsed.volumes[2].offset
           = parsed.volumes[1].offset + parsed.volumes[1].size

\* C18: parse reports failure exactly when the volume scan accepts no
\* volume; whenever the scan accepts one, parse succeeds, whatever else is
\* wrong with the buffer, and every accepted volume is walked.
C18_OnlyNoVolumesFails ==
    parsed.ret # "none" =>
        /\ (parsed.ret = "fail")
               <=> (_find_volumes(parserData).volumes = <<>>)
        /\ _find_volumes(parserData).volumes # <<>> =>
               /\ parsed.ret = "ok"
               /\ Len(parsed.volumes)
                      = Len(_find_volumes(parserData).volumes)

----------------------------------------------------------------------------
(* The PatchEngine driven by an arbitrary caller: specification Spec.      *)

\* bounds of the engine runs: image length and calls per engine
ELen == 144
MaxEngineCalls == 4

\* a synthetic image: optionally one volume at 0x50 that runs to the end of
\* the image, optionally the Setup signature at 4 with CfgLk = 1, and the
\* hazard markers named by sec
EngineImage(sec, vol, setup) ==
    LET b1 == IF vol
              THEN Put(Put(Fill(ELen, 0), 80, FVH_SIGNATURE),
                       80 + 32, PackI(ELen - 80))
              ELSE Fill(ELen, 0)
        b2 == IF setup THEN Put(Put(b1, 4, setup_sig), 4 + 67, <<1>>) ELSE b1
    IN  CASE sec = "none"     -> b2
          [] sec = "pfat"     -> Put(b2, 16, pfat_sig)
          [] sec = "verified" -> Put(Put(b2, 16, keym_sig), 32, PackI(1))
          [] sec = "measured" -> Put(Put(b2, 16, keym_sig), 32, PackI(2))

\* an image whose Setup signature is at offset 0, with CfgLk = 1
SetupAtZero ==
    Put(Put(EngineImage("none", TRUE, FALSE), 0, setup_sig), 67, <<1>>)

\* an image with three of the lock fields set: CfgLk, OcLk and TdpLk
ThreeLocks ==
    Put(Put(EngineImage("none", TRUE, TRUE), 4 + 68, <<1>>), 4 + 107, <<3>>)

EngineImages ==
    {EngineImage(sec, TRUE, TRUE) :
        sec \in {"none", "pfat", "verified", "measured"}}
    \cup {EngineImage("none", FALSE, TRUE), EngineImage("none", TRUE, FALSE)}
    \cup {SetupAtZero, ThreeLocks}

\* the configurations applied: the defaults (unlock only), a PL3 whose
\* bytes land in the volume's length field, and a PL1 / Tau / ME-disable set
Configs ==
    {BIOSConfig,
     [BIOSConfig EXCEPT !.pl3 = <<10>>],
     [BIOSConfig EXCEPT !.cfg_lock = 1, !.pl1 = <<65>>, !.tau = <<28>>,
                        !.me_disable = <<1>>],
     [BIOSConfig EXCEPT !.cfg_lock = 1, !.tau = <<300>>]}

Init ==
    /\ inFile \in EngineImages
    /\ hasData = FALSE
    /\ data = <<>>
    /\ hasParser = FALSE
    /\ volumes = <<>>
    /\ setup_offset = <<>>
    /\ hasPatcher = FALSE
    /\ stats = EngineStats
    /\ \E old \in {NoFile, File(<<1, 2, 3>>)} :
           fs = [p \in Paths |-> IF p = output_path THEN old ELSE NoFile]
    /\ pc = "idle"
    /\ outBefore = outFile
    /\ dataBefore = <<>>
    /\ passed = FALSE
    /\ refused = FALSE
    /\ saved = FALSE
    /\ injected = FALSE
    /\ PatcherUnused
    /\ AnalyzerUnused
    /\ CodecUnused
    /\ IfrUnused
    /\ ParserUnused

\* a call of an engine method begins: what the ghosts record of it
Begin(op, arg) ==
    /\ pc = "idle"
    /\ calls < MaxEngineCalls
    /\ calls' = calls + 1
    /\ dataBefore' = data
    /\ prevData' = pdata
    /\ prevPatches' = patches
    /\ repeat' = (last.op = op /\ last.arg = arg)

Returns(op, arg, ret) ==
    last' = [op |-> op, off |-> 0, arg |-> arg, ret |-> ret]

\* PatchEngine.load(image_path), once per engine
\* "if x:" for an Optional[int] x: neither None nor 0
Truthy(x) == x # <<>> /\ x # <<0>>

Load ==
    /\ Begin("load", <<>>)
    /\ ~hasData
    /\ hasData' = TRUE
    /\ data' = inFile
    /\ hasParser' = TRUE
    /\ \E r \in {parse(inFile)} :
           /\ volumes' = r.volumes
           /\ setup_offset' = r.setup_offset
           /\ IF r.ret = "ok"
              THEN /\ stats' = [stats EXCEPT !.input_size = Len(inFile),
                                             !.volumes_found = Len(r.volumes)]
                   /\ hasPatcher' = TRUE
                   /\ pdata' = inFile
                   /\ initData' = inFile
                   /\ patches' = <<>>
                   /\ setup_base' = IF Truthy(r.setup_offset)
                                    THEN r.setup_offset ELSE <<>>
                   /\ pc' = "idle"
                   /\ Returns("load", <<>>, "ok")
              ELSE /\ stats' = [stats EXCEPT !.input_size = Len(inFile)]
                   /\ pc' = IF r.ret = "hang" THEN "hung" ELSE "idle"
                   /\ Returns("load", <<>>, r.ret)
                   /\ UNCHANGED <<hasPatcher, pdata, initData, patches,
                                  setup_base>>
    /\ UNCHANGED <<inFile, fs, outBefore, passed, refused,
                   saved, injected, analyzerVars, pureVars, ifrVars>>

\* the body of preflight once self.data is set: st is the status analyze()
\* returned, compat tells whether check_cpu_compat accepted the detected CPU
PreflightBody(force, compat, st) ==
    LET w1  == stats.warnings \o st.warnings
        w2  == IF compat THEN w1
               ELSE Append(w1, Warning("WARNING", "cpu compatibility"))
        ret == gate(st, force)
    IN  /\ secData' = data
        /\ status' = st
        /\ analyses' = analyses + 1
        /\ stats' = [stats EXCEPT !.boot_guard = st.boot_guard_enabled,
                                  !.me_found = st.me_region_found,
                                  !.safe_to_flash = st.safe_to_flash,
                                  !.warnings = w2]
        /\ passed' = (passed \/ ret = "ok")
        /\ refused' = (refused \/ ret = "fail")
        /\ Returns("preflight", <<IF force THEN 1 ELSE 0>>, ret)

\* PatchEngine.preflight(force)
Preflight ==
    \E force \in BOOLEAN, compat \in BOOLEAN :
        /\ Begin("preflight", <<IF force THEN 1 ELSE 0>>)
        /\ IF hasData
           THEN \E st \in {analyze(data, SecurityStatus)} :
                    PreflightBody(force, compat, st)
           ELSE \* bytes(None) raises TypeError
                /\ Returns("preflight", <<IF force THEN 1 ELSE 0>>, "raise")
                /\ UNCHANGED <<analyzerVars, stats, passed, refused>>
        /\ UNCHANGED <<inFile, hasData, data, hasParser, volumes,
                       setup_offset, hasPatcher, fs, pc,
                       outBefore, saved, injected, pdata, patches,
                       setup_base, initData, pureVars, ifrVars>>

\* what the ghosts record of a configuration: cfg_lock and the number of
\* Patcher calls the configuration asks for
ConfigArg(config) ==
    <<config.cfg_lock, Len(ConfigSteps(config)), config.tau>>

\* PatchEngine.apply_config(config)
ApplyConfig ==
    \E config \in Configs :
        /\ Begin("apply_config", ConfigArg(config))
        /\ IF ~hasPatcher \/ ~Truthy(setup_base)
           THEN /\ Returns("apply_config", ConfigArg(config), "fail")
                /\ UNCHANGED <<pdata, patches, stats>>
           ELSE \E r \in {RunSteps(St, ConfigSteps(config))} :
                    /\ pdata' = r.data
                    /\ patches' = r.patches
                    /\ stats' = IF r.ret = "raise" THEN stats
                                ELSE [stats EXCEPT
                                        !.patches_applied = Len(r.patches)]
                    /\ Returns("apply_config", ConfigArg(config), r.ret)
        /\ UNCHANGED <<inFile, hasData, data, hasParser, volumes,
                       setup_offset, hasPatcher, fs, pc,
                       outBefore, passed, refused, saved, injected,
                       setup_base, initData, analyzerVars, pureVars,
                       ifrVars>>


\* what save leaves alone whatever it does
SaveFrame ==
    UNCHANGED <<inFile, hasData, hasParser, volumes, setup_offset, hasPatcher,
                passed, refused, injected, pdata, patches, setup_base,
                initData, analyzerVars, pureVars, ifrVars>>

\* PatchEngine.save(output_path, atomic) up to and including the first
\* write: the temporary file when atomic, the output path itself when not.
\* written tells whether write_bytes completed; when it raises, the file it
\* had opened is left truncated.
SaveBegin ==
    \E atomic \in BOOLEAN, written \in BOOLEAN :
        LET arg == <<IF atomic THEN 1 ELSE 0>>
            out == IF hasPatcher THEN pdata ELSE data
        IN  /\ Begin("save", arg)
            /\ outBefore' = outFile
            /\ IF ~hasData \/ data = <<>>
               THEN /\ Returns("save", arg, "fail")
                    /\ UNCHANGED <<data, stats, fs, pc, saved>>
               ELSE /\ data' = out
                    /\ stats' = [stats EXCEPT !.output_size = Len(out)]
                    /\ IF atomic
                       THEN /\ fs' = write_bytes(fs, temp_path(output_path),
                                                  out, written)
                            /\ pc' = IF written THEN "written" ELSE "idle"
                            /\ Returns("save", arg,
                                       IF written THEN "pending" ELSE "raise")
                            /\ UNCHANGED saved
                       ELSE /\ fs' = write_bytes(fs, output_path, out,
                                                  written)
                            /\ saved' = TRUE
                            /\ Returns("save", arg,
                                       IF written THEN "ok" ELSE "raise")
                            /\ UNCHANGED pc
            /\ SaveFrame

\* what a step inside save leaves alone
StepFrame ==
    UNCHANGED <<data, stats, outBefore, dataBefore, prevData, prevPatches,
                repeat, calls>>

\* save: verify_parser.parse() on the bytes just written; on failure the
\* temporary file is unlinked and save returns False
SaveVerify ==
    /\ pc = "written"
    /\ \E r \in {parse(data)} :
           IF r.ret = "hang"
           THEN /\ pc' = "hung"
                /\ UNCHANGED <<fs, last>>
           ELSE IF rejected(r)
           THEN /\ pc' = "idle"
                /\ fs' = unlink(fs, temp_path(output_path))
                /\ last' = [last EXCEPT !.ret = "fail"]
           ELSE /\ pc' = "verified"
                /\ UNCHANGED <<fs, last>>
    /\ UNCHANGED saved
    /\ StepFrame
    /\ SaveFrame

\* save: shutil.move(temp_path, output_path), then return True
SaveRename ==
    /\ pc = "verified"
    /\ fs' = move(fs, temp_path(output_path), output_path)
    /\ saved' = TRUE
    /\ pc' = "idle"
    /\ last' = [last EXCEPT !.ret = "ok"]
    /\ StepFrame
    /\ SaveFrame

\* the process is killed inside save, between two of its steps
Crash ==
    /\ pc \in {"written", "verified"}
    /\ pc' = "crashed"
    /\ UNCHANGED <<fs, saved, last>>
    /\ StepFrame
    /\ SaveFrame

Next ==
    \/ Load
    \/ Preflight
    \/ ApplyConfig
    \/ SaveBegin
    \/ SaveVerify
    \/ SaveRename
    \/ Crash

Spec == Init /\ [][Next]_vars

----------------------------------------------------------------------------
(* Properties of the PatchEngine pipeline, checked under Spec.             *)

\* an atomic save is the last call made, and it has returned or stopped
AtomicSave == last.op = "save" /\ last.arg = <<1>>

\* C1: preflight on a loaded engine returns failure exactly when the
\* analyzer's verdict on the engine's image is unsafe and force is off, and
\* success in every other case; stats.safe_to_flash is that verdict whatever
\* force is, and neither the image buffer nor the patcher's buffer and
\* ledger change.
C1_PreflightGate ==
    (last.op = "preflight" /\ hasData) =>
        /\ last.ret \in {"ok", "fail"}
        /\ (last.ret = "fail") <=> (~status.safe_to_flash /\ last.arg = <<0>>)
        /\ status = analyze(data, SecurityStatus)
        /\ stats.safe_to_flash = status.safe_to_flash
        /\ data = dataBefore
        /\ pdata = prevData
        /\ patches = prevPatches

\* a forced preflight of an unsafe image returned success and still reports
\* the image as unsafe
C1_Witness ==
    /\ last.op = "preflight"
    /\ hasData
    /\ last.arg = <<1>>
    /\ last.ret = "ok"
    /\ ~status.safe_to_flash
    /\ ~stats.safe_to_flash

\* C2: the pipeline is linear: the patcher's buffer differs from the loaded
\* image, or an output file has been written, only on an engine one of
\* whose earlier preflight calls returned success.
C2_PipelineLinear ==
    ((hasPatcher /\ pdata # initData) \/ saved) => passed

\* C5: when the parser rejects the bytes an atomic save has just written,
\* save returns failure, the temporary file is gone when it returns, and the
\* output path holds what it held before the call.
C5_VerifyFailureCleansUp ==
    (/\ AtomicSave
     /\ pc = "idle"
     /\ last.ret # "raise"
     /\ hasData
     /\ data # <<>>
     /\ parse(data).ret = "fail") =>
        /\ last.ret = "fail"
        /\ ~tmpFile.exists
        /\ outFile = outBefore

\* an atomic save of a patched image failed its verification while an
\* older output file was in place
C5_Witness ==
    /\ AtomicSave
    /\ pc = "idle"
    /\ last.ret = "fail"
    /\ hasData
    /\ patches # <<>>
    /\ parse(data).ret = "fail"
    /\ outBefore.exists
    /\ outFile = outBefore
    /\ ~tmpFile.exists

\* C6: whenever an atomic save returns success, the bytes at the output
\* path parse, by a fresh parser, to at least one firmware volume.
C6_SavedFileReparses ==
    (AtomicSave /\ last.ret = "ok") =>
        /\ outFile.exists
        /\ parse(outFile.bytes).ret = "ok"
        /\ Len(parse(outFile.bytes).volumes) >= 1

\* an atomic save returned success for an image that patches have changed
C6_Witness ==
    /\ AtomicSave
    /\ last.ret = "ok"
    /\ patches # <<>>
    /\ outFile.exists
    /\ outFile.bytes = pdata
    /\ outFile.bytes # inFile

\* C7: an atomic save writes the temporary file, verifies, then renames;
\* until the rename the output path holds what it held before the call,
\* whether save is still running, was interrupted, hangs in the parser,
\* raised, or returned failure; the temporary file holds the image from
\* the write to the rename.
C7_OutputUntouchedBeforeRename ==
    /\ (AtomicSave /\ (pc # "idle" \/ last.ret \in {"fail", "raise"})) =>
           outFile = outBefore
    /\ (AtomicSave /\ pc \in {"written", "verified"}) =>
           tmpFile = File(data)
    /\ (AtomicSave /\ pc = "verified") => parse(tmpFile.bytes).ret = "ok"

\* the process was killed inside an atomic save, after the temporary file
\* was written, while an older output file was in place
C7_Witness ==
    /\ AtomicSave
    /\ pc = "crashed"
    /\ tmpFile.exists
    /\ patches # <<>>
    /\ outBefore.exists
    /\ outFile = outBefore

\* the absolute offsets of the six lock fields for the Setup base B
LockOffsets(B) == {B + OFFSETS[locks[k]][1] : k \in 1..Len(locks)}

\* the ledger records the most recent call appended
NewRecords == {patches[n] : n \in (Len(prevPatches) + 1)..Len(patches)}

\* C19: on a loaded image whose Setup region was found at base B with the
\* six lock fields in bounds, apply_config with cfg_lock = 0 and no other
\* field set appends exactly one applied record for each lock field whose
\* byte was non-zero, changing that byte to 00, and no other record;
\* afterwards the six lock bytes are 0.
C19_UnlockRecords ==
    (/\ last.op = "apply_config"
     /\ last.arg = ConfigArg(BIOSConfig)
     /\ hasPatcher
     /\ setup_offset # <<>>
     /\ \A o \in LockOffsets(setup_offset[1]) : o < Len(prevData)) =>
        LET held == {o \in LockOffsets(setup_offset[1]) :
                        At(prevData, o) # 0}
        IN  /\ last.ret = "ok"
            /\ Len(patches) = Len(prevPatches) + Cardinality(held)
            /\ Cardinality(NewRecords) = Cardinality(held)
            /\ \A rec \in NewRecords :
                   /\ rec.offset \in held
                   /\ rec.old_data = <<At(prevData, rec.offset)>>
                   /\ rec.new_data = <<0>>
                   /\ rec.applied
            /\ \A o \in held : \E rec \in NewRecords : rec.offset = o
            /\ \A o \in LockOffsets(setup_offset[1]) : At(pdata, o) = 0

\* C20: when load found no Setup region, apply_config is a no-op that is
\* not a failure: it appends no record, leaves the buffer unchanged and
\* returns success.
C20_NoSetupIsNoFailure ==
    (/\ last.op = "apply_config"
     /\ hasPatcher
     /\ setup_offset = <<>>) =>
        /\ patches = prevPatches
        /\ pdata = prevData
        /\ last.ret = "ok"



----------------------------------------------------------------------------
(* Names the offset table does not hold.                                   *)

\* C21: patch_setup_offset with a name absent from the offset map, on a
\* Patcher whose Setup base is set, returns failure (it does not leave the
\* call with an exception that would abort the caller) and leaves the buffer
\* and the ledger unchanged.
C21_OffsetNotFoundLocal ==
    (last.op = "NoSuchField" /\ setup_base # <<>>)
        => /\ last.ret = "fail"
           /\ pdata = prevData
           /\ patches = prevPatches


----------------------------------------------------------------------------
(* The HAP bit.                                                            *)

\* the most recent call is set_hap_bit(enable, pch_offset)
HapCall == last.op = "set_hap_bit"
HapEnable == last.arg[1]
HapInBounds == last.off + 4 <= Len(prevData)

\* C22: set_hap_bit(enable, pch_offset) with pch_offset + 4 <= len(buffer)
\* returns success, bit 16 of the little-endian 32-bit field at pch_offset
\* then equals enable, every other bit of the field and every byte outside
\* the field is unchanged, and at most one ledger record is appended, none
\* when the bit already had the target value; with pch_offset + 4 beyond the
\* buffer the call fails and changes nothing.
C22_HapBitFrame ==
    HapCall =>
        IF HapInBounds
        THEN LET old == UnpackI(prevData, last.off)
                 new == UnpackI(pdata, last.off)
             IN  /\ last.ret = "ok"
                 /\ BitI(new, 16) = HapEnable
                 /\ \A k \in (0..31) \ {16} : BitI(new, k) = BitI(old, k)
                 /\ Len(pdata) = Len(prevData)
                 /\ \A i \in 0..(Len(pdata) - 1) :
                        (i < last.off \/ i >= last.off + 4)
                            => At(pdata, i) = At(prevData, i)
                 /\ Appended \in {0, 1}
                 /\ BitI(old, 16) = HapEnable => Appended = 0
                 /\ BitI(old, 16) # HapEnable =>
                        /\ Appended = 1
                        /\ patches[Len(patches)] = Patch(last.off, old, new)
        ELSE /\ last.ret = "fail"
             /\ pdata = prevData
             /\ patches = prevPatches

\* a call that flipped the bit at the last offset the buffer has room for
C22_Witness ==
    /\ HapCall
    /\ last.off = PBufLen - 4
    /\ last.ret = "ok"
    /\ Appended = 1
    /\ BitI(UnpackI(pdata, last.off), 16) # BitI(UnpackI(prevData, last.off), 16)


----------------------------------------------------------------------------
(* The turbo time window.                                                  *)

\* the most recent call is apply_config with Tau set, on an engine whose
\* Patcher has a Setup base apply_config accepts and room for the Tau byte
TauApplied ==
    /\ last.op = "apply_config"
    /\ last.arg[3] # <<>>
    /\ hasPatcher
    /\ setup_base # <<>>
    /\ setup_base # <<0>>
    /\ setup_base[1] + OFFSETS["Tau"][1] < Len(pdata)

\* C23: the turbo time window is stored as one byte clamped to [0,255]:
\* for every integer tau of the configuration apply_config completes and the
\* byte at Setup base + 0x6A then equals min(max(tau, 0), 255).
C23_TauClamped ==
    TauApplied =>
        LET tau == last.arg[3][1]
            clamped == IF tau < 0 THEN 0 ELSE Min(tau, 255)
        IN  /\ last.ret = "ok"
            /\ At(pdata, setup_base[1] + OFFSETS["Tau"][1]) = clamped


----------------------------------------------------------------------------
(* firmware/ifr.py: the IFRParser.  A str is the sequence of its character *)
(* codes; a dict is the sequence of its <<key, value>> pairs in insertion  *)
(* order, which is the order Python iterates it in.                        *)

DictHas(d, k) == \E i \in DOMAIN d : d[i][1] = k

\* d.get(k, default)
DictGet(d, k, default) ==
    IF DictHas(d, k) THEN d[CHOOSE i \in DOMAIN d : d[i][1] = k][2]
    ELSE default

\* d[k] = v: an existing key keeps its place, a new one goes last
DictPut(d, k, v) ==
    IF DictHas(d, k)
    THEN [i \in DOMAIN d |-> IF d[i][1] = k THEN <<k, v>> ELSE d[i]]
    ELSE Append(d, <<k, v>>)

\* the IFROpcode values the walk dispatches on, and the extended prefix
ONE_OF == 5
CHECKBOX == 6
NUMERIC == 7
ONE_OF_OPTION == 9
VARSTORE == 36
VARSTORE_EFI == 38
ExtendedPrefix == 92

\* str.isalnum(), str.isspace() and str.lower() on the characters below 256
isalnum(c) ==
    c \in (48..57) \cup (65..90) \cup (97..122)
          \cup {170, 178, 179, 181, 185, 186, 188, 189, 190}
          \cup (192..214) \cup (216..246) \cup (248..255)

isspace(c) == c \in (9..13) \cup (28..32) \cup {133, 160}

lower(s) ==
    [i \in DOMAIN s |->
        IF s[i] \in (65..90) \cup (192..214) \cup (216..222)
        THEN s[i] + 32 ELSE s[i]]

\* s.strip() / s.strip("_"): drop the leading and trailing characters in cs
Strip(s, cs) ==
    LET keep == {i \in DOMAIN s : s[i] \notin cs}
    IN  IF keep = {} THEN <<>>
        ELSE SubSeq(s, CHOOSE i \in keep : \A j \in keep : i <= j,
                       CHOOSE i \in keep : \A j \in keep : i >= j)

\* f"{n:04X}" for 0 <= n < 2^16, and f"{n}" for n >= 0
HexDigit(d) == IF d < 10 THEN 48 + d ELSE 55 + d
Hex4(n) == <<HexDigit((n \div 4096) % 16), HexDigit((n \div 256) % 16),
             HexDigit((n \div 16) % 16), HexDigit(n % 16)>>

RECURSIVE Dec(_)
Dec(n) == IF n < 10 THEN <<48 + n>> ELSE Dec(n \div 10) \o <<48 + (n % 10)>>

\* the literals "Setting_", "VarStore_" and "UnknownSetting"
SettingPrefix == <<83, 101, 116, 116, 105, 110, 103, 95>>
VarStorePrefix == <<86, 97, 114, 83, 116, 111, 114, 101, 95>>
UnknownSetting == <<85, 110, 107, 110, 111, 119, 110, 83, 101, 116, 116, 105, 110, 103>>

\* bytes.decode('utf-16-le') of an even number of bytes without surrogates
Utf16(b) == [i \in 1..(Len(b) \div 2) |-> b[2 * i - 1] + 256 * b[2 * i]]

_clean_name(name) ==
    LET kept  == SelectSeq(name,
                           LAMBDA c : isalnum(c) \/ c \in {95, 45, 32})
        clean == [i \in DOMAIN kept |-> IF kept[i] = 32 THEN 95 ELSE kept[i]]
        strip == Strip(clean, {95})
        cut   == IF Len(strip) > 50 THEN SubSeq(strip, 1, 50) ELSE strip
    IN  IF cut = <<>> THEN UnknownSetting ELSE cut

\* the inner while of _extract_strings: from str_pos in steps of two, the
\* first position that holds 00 00 or is not below len - 1
EndPos(buf, str_pos) ==
    LET steps == {str_pos + 2 * k : k \in 0..(Len(buf) \div 2)}
        stops == {e \in steps :
                    \/ ~(e < Len(buf) - 1)
                    \/ At(buf, e) = 0 /\ At(buf, e + 1) = 0}
    IN  CHOOSE e \in stops : \A f \in stops : e <= f

\* the strings of the package whose marker is at pos, numbered from 1
RECURSIVE PackageStrings(_, _, _, _, _)
PackageStrings(buf, pos, str_pos, string_id, strings) ==
    IF ~(str_pos < Len(buf) - 2) THEN strings
    ELSE IF At(buf, str_pos) = 0 THEN strings
    ELSE LET end_pos    == EndPos(buf, str_pos)
             string_val == Strip(Utf16(Slice(buf, str_pos, end_pos)),
                                 {c \in 0..255 : isspace(c)})
             take       == /\ end_pos > str_pos
                           /\ end_pos < Len(buf)
                           /\ string_val # <<>>
                           /\ Len(string_val) < 100
             strings2   == IF take
                           THEN DictPut(strings, string_id, string_val)
                           ELSE strings
             id2        == IF take THEN string_id + 1 ELSE string_id
         IN  IF end_pos + 2 >= pos + 512 THEN strings2
             ELSE PackageStrings(buf, pos, end_pos + 2, id2, strings2)

\* the outer while of _extract_strings acts at the positions below
\* len - 16 that hold the marker 02 00, in increasing order
MarkerPositions(buf) ==
    {pos \in 0..(Len(buf) - 17) : Slice(buf, pos, pos + 2) = <<2, 0>>}

RECURSIVE ScanStrings(_, _, _)
ScanStrings(buf, markers, strings) ==
    IF markers = {} THEN strings
    ELSE LET pos == CHOOSE m \in markers : \A n \in markers : m <= n
         IN  ScanStrings(buf, markers \ {pos},
                         PackageStrings(buf, pos, pos + 4, 1, strings))

_extract_strings(buf) == ScanStrings(buf, MarkerPositions(buf), <<>>)

\* the name loop of the two VARSTORE parsers: chr() of every other byte
RECURSIVE VarStoreName(_, _)
VarStoreName(name_data, i) ==
    IF ~(i < Len(name_data) - 1) THEN <<>>
    ELSE IF At(name_data, i) = 0 /\ At(name_data, i + 1) = 0 THEN <<>>
    ELSE <<At(name_data, i)>> \o VarStoreName(name_data, i + 2)

VarStore(varstore_id, guid, name, size) ==
    [varstore_id |-> varstore_id, guid |-> guid,
     name |-> IF name = <<>> THEN VarStorePrefix \o Dec(varstore_id)
              ELSE name,
     size |-> size]

\* The opcode walk carries w = [offsets, varstores, current_varstore] and
\* two records of what it did: trace, the cursor positions at which a
\* length byte was examined, and seen, every OffsetInfo built, in order.

_parse_varstore(w, buf) ==
    IF Len(buf) < 20 THEN w
    ELSE LET varstore_id == UnpackH(buf, 16)
             size        == UnpackH(buf, 18)
             name        == VarStoreName(Slice(buf, 20, Len(buf)), 0)
         IN  [w EXCEPT
                !.varstores = DictPut(@, varstore_id,
                                      VarStore(varstore_id,
                                               Slice(buf, 0, 16),
                                               name, size)),
                !.current_varstore = <<varstore_id>>]

_parse_varstore_efi(w, buf) ==
    IF Len(buf) < 24 THEN w
    ELSE LET varstore_id == UnpackH(buf, 0)
             size        == UnpackH(buf, 22)
             name        == VarStoreName(Slice(buf, 24, Len(buf)), 0)
         IN  [w EXCEPT
                !.varstores = DictPut(@, varstore_id,
                                      VarStore(varstore_id,
                                               Slice(buf, 2, 18),
                                               name, size)),
                !.current_varstore = <<varstore_id>>]

OffsetInfo(name, offset, size, varstore_id, opcode, prompt_id, help_id, min_value, max_value, options) ==
    [name |-> name, offset |-> offset, size |-> size,
     varstore_id |-> varstore_id, opcode |-> opcode,
     prompt_id |-> prompt_id, help_id |-> help_id, default_value |-> <<>>,
     min_value |-> min_value, max_value |-> max_value, options |-> options]

\* self.strings.get(prompt_id, f"Setting_{var_offset:04X}"), cleaned
question_name(strings, prompt_id, var_offset) ==
    _clean_name(DictGet(strings, prompt_id,
                        SettingPrefix \o Hex4(var_offset)))

\* a registration that keeps the entry a name already has
register_first(w, info) ==
    [w EXCEPT !.offsets = IF DictHas(@, info.name) THEN @
                          ELSE DictPut(@, info.name, info),
              !.seen = Append(@, info)]

\* self.offsets[name] = offset_info
register(w, info) ==
    [w EXCEPT !.offsets = DictPut(@, info.name, info),
              !.seen = Append(@, info)]

_parse_one_of(w, strings, buf) ==
    IF Len(buf) < 12 THEN w
    ELSE LET prompt_id  == UnpackH(buf, 0)
             var_offset == UnpackH(buf, 9)
             size       == IF Len(buf) > 12 THEN At(buf, 12) ELSE 1
         IN  register(w,
                 OffsetInfo(question_name(strings, prompt_id, var_offset),
                            var_offset, size, UnpackH(buf, 7), ONE_OF,
                            prompt_id, UnpackH(buf, 2), <<>>, <<>>,
                            "{}"))

_parse_checkbox(w, strings, buf) ==
    IF Len(buf) < 12 THEN w
    ELSE LET prompt_id  == UnpackH(buf, 0)
             var_offset == UnpackH(buf, 9)
         IN  register(w,
                 OffsetInfo(question_name(strings, prompt_id, var_offset),
                            var_offset, 1, UnpackH(buf, 7), CHECKBOX,
                            prompt_id, UnpackH(buf, 2), <<>>, <<>>,
                            "{Disabled: 0, Enabled: 1}"))

_parse_numeric(w, strings, buf) ==
    IF Len(buf) < 16 THEN w
    ELSE LET prompt_id  == UnpackH(buf, 0)
             var_offset == UnpackH(buf, 9)
             size       == At(buf, 12)
             min_val    == IF size = 1 THEN <<At(buf, 13)>>
                           ELSE IF size = 2 THEN <<UnpackH(buf, 13)>>
                           ELSE <<>>
             max_val    == IF size = 1 THEN <<At(buf, 14)>>
                           ELSE IF size = 2
                                THEN IF Len(buf) >= 17
                                     THEN <<UnpackH(buf, 15)>> ELSE <<0>>
                           ELSE <<>>
         IN  register(w,
                 OffsetInfo(question_name(strings, prompt_id, var_offset),
                            var_offset, size, UnpackH(buf, 7), NUMERIC,
                            prompt_id, UnpackH(buf, 2), min_val, max_val,
                            "None"))

\* _parse_one_of_option reads the option and logs it: no field changes
_parse_one_of_option(w, strings, buf) == w

\* the if / elif chain of _parse_opcodes
Dispatch(w, strings, opcode, opcode_data) ==
    IF opcode = VARSTORE /\ Len(opcode_data) >= 4
    THEN _parse_varstore(w, opcode_data)
    ELSE IF opcode = VARSTORE_EFI /\ Len(opcode_data) >= 4
    THEN _parse_varstore_efi(w, opcode_data)
    ELSE IF opcode = ONE_OF /\ Len(opcode_data) >= 6
    THEN _parse_one_of(w, strings, opcode_data)
    ELSE IF opcode = CHECKBOX /\ Len(opcode_data) >= 6
    THEN _parse_checkbox(w, strings, opcode_data)
    ELSE IF opcode = NUMERIC /\ Len(opcode_data) >= 8
    THEN _parse_numeric(w, strings, opcode_data)
    ELSE IF opcode = ONE_OF_OPTION /\ Len(opcode_data) >= 4
    THEN _parse_one_of_option(w, strings, opcode_data)
    ELSE w

\* the while loop of _parse_opcodes from cursor pos
RECURSIVE WalkOpcodes(_, _, _, _)
WalkOpcodes(buf, strings, pos, w) ==
    IF ~(pos < Len(buf) - 2) THEN w
    ELSE LET ext    == At(buf, pos) = ExtendedPrefix
             opcode == IF ext THEN At(buf, pos + 1) ELSE At(buf, pos)
             length == IF ext THEN At(buf, pos + 2) ELSE At(buf, pos + 1)
             p      == IF ext THEN pos + 1 ELSE pos
             w1     == [w EXCEPT !.trace = Append(@, p)]
         IN  IF ext /\ ~(pos + 2 < Len(buf))
             THEN WalkOpcodes(buf, strings, pos + 1, w)
             ELSE IF length < 2 \/ length > 255
             THEN WalkOpcodes(buf, strings, p + 1, w1)
             ELSE IF p + length > Len(buf) THEN w1           \* break
             ELSE WalkOpcodes(buf, strings, p + length,
                              Dispatch(w1, strings, opcode,
                                       Slice(buf, p + 2, p + length)))

_parse_opcodes(buf, strings) ==
    WalkOpcodes(buf, strings, 0,
                [offsets |-> <<>>, varstores |-> <<>>,
                 current_varstore |-> <<>>, trace |-> <<>>, seen |-> <<>>])

\* IFRParser.parse(setup_data) on an instance with fields inst: the fields
\* afterwards, the mapping returned, and the walk's trace and seen
parse_ifr(inst, setup_data) ==
    IF setup_data = <<>> \/ Len(setup_data) < 4
    THEN [inst |-> inst, ret |-> <<>>, trace |-> <<>>, seen |-> <<>>]
    ELSE LET strings == _extract_strings(setup_data)
             w       == _parse_opcodes(setup_data, strings)
         IN  [inst |-> [offsets |-> w.offsets, varstores |-> w.varstores,
                        strings |-> strings,
                        current_varstore |-> w.current_varstore,
                        cache_valid |-> TRUE],
              ret |-> w.offsets, trace |-> w.trace, seen |-> w.seen]

\* name_lower in setting_name.lower()
Contains(s, sub) ==
    \E i \in 0..(Len(s) - Len(sub)) :
        \A j \in 1..Len(sub) : s[i + j] = sub[j]

\* the value of the first pair of d, in iteration order, whose key is in keys
FirstMatch(d, keys) ==
    LET hits == {i \in DOMAIN d : d[i][1] \in keys}
    IN  IF hits = {} THEN <<>>
        ELSE <<d[CHOOSE i \in hits : \A j \in hits : i <= j][2]>>

\* find_offset(name): <<>> is None
find_offset(inst, name) ==
    LET names   == {inst.offsets[i][1] : i \in DOMAIN inst.offsets}
        exact   == FirstMatch(inst.offsets, {name})
        nocase  == FirstMatch(inst.offsets,
                              {k \in names : lower(k) = lower(name)})
        partial == FirstMatch(inst.offsets,
                              {k \in names :
                                  Contains(lower(k), lower(name))})
    IN  IF exact # <<>> THEN <<exact[1].offset>>
        ELSE IF nocase # <<>> THEN <<nocase[1].offset>>
        ELSE IF partial # <<>> THEN <<partial[1].offset>>
        ELSE <<>>

\* get_offset_info(name): self.offsets.get(name)
get_offset_info(inst, name) ==
    FirstMatch(inst.offsets, {name})

setting_type(opcode) ==
    IF opcode = CHECKBOX THEN "checkbox"
    ELSE IF opcode = NUMERIC THEN "numeric"
    ELSE IF opcode = ONE_OF THEN "oneof"
    ELSE "unknown"

\* get_all_settings(): one Setting per entry, in iteration order
get_all_settings(inst) ==
    [i \in DOMAIN inst.offsets |->
        LET name == inst.offsets[i][1]
            info == inst.offsets[i][2]
            description ==
                IF info.help_id # 0 /\ DictHas(inst.strings, info.help_id)
                THEN DictGet(inst.strings, info.help_id, <<>>)
                ELSE IF info.prompt_id # 0
                        /\ DictHas(inst.strings, info.prompt_id)
                THEN DictGet(inst.strings, info.prompt_id, <<>>)
                ELSE <<>>
        IN  [name |-> name, offset |-> info.offset, size |-> info.size,
             description |-> IF description = <<>> THEN name
                             ELSE description,
             setting_type |-> setting_type(info.opcode),
             default_value |-> info.default_value,
             min_value |-> info.min_value, max_value |-> info.max_value,
             options |-> info.options]]


----------------------------------------------------------------------------
(* The IFRParser driven by an arbitrary caller: specification SpecIfr.     *)

\* parse calls per instance
MaxIfrCalls == 2

\* the eleven bytes every question record starts with
QuestionHeader(prompt_id, help_id, varstore_id, var_offset) ==
    PackH(prompt_id) \o PackH(help_id) \o <<0, 0, 0>> \o PackH(varstore_id)
    \o PackH(var_offset)

\* a CHECKBOX record of 14 bytes, a ONE_OF record of 15 and a NUMERIC record
\* of 18 with a one-byte value
CheckboxRecord(prompt_id, varstore_id, var_offset) ==
    <<CHECKBOX, 14>> \o QuestionHeader(prompt_id, 0, varstore_id, var_offset)
    \o <<0>>

OneOfRecord(prompt_id, varstore_id, var_offset, size) ==
    <<ONE_OF, 15>> \o QuestionHeader(prompt_id, 3, varstore_id, var_offset)
    \o <<0, size>>

NumericRecord(prompt_id, varstore_id, var_offset, lo, hi) ==
    <<NUMERIC, 18>> \o QuestionHeader(prompt_id, 0, varstore_id, var_offset)
    \o <<0, 1, lo, hi, 0>>

\* a VARSTORE record named "S" and a VARSTORE_EFI record without a name
VarStoreRecord(varstore_id, size) ==
    <<VARSTORE, 26>> \o Fill(16, 17) \o PackH(varstore_id) \o PackH(size)
    \o <<83, 0, 0, 0>>

VarStoreEfiRecord(varstore_id, size) ==
    <<VARSTORE_EFI, 26>> \o PackH(varstore_id) \o Fill(16, 17)
    \o <<7, 0, 0, 0>> \o PackH(size)

\* a ONE_OF_OPTION record with a one-byte value
OptionRecord(option_id, value) ==
    <<ONE_OF_OPTION, 7>> \o PackH(option_id) \o <<0, 0, value>>

\* a string as UTF-16-LE with its terminator
Utf16Z(str) ==
    LET RECURSIVE Enc(_)
        Enc(k) == IF k = 0 THEN <<>> ELSE Enc(k - 1) \o <<str[k], 0>>
    IN  Enc(Len(str)) \o <<0, 0>>

\* a string package: the marker, the strings, and zeroes up to 20 bytes
\* past the last string
StringPackage(strs) ==
    LET RECURSIVE All(_)
        All(k) == IF k = 0 THEN <<>> ELSE All(k - 1) \o Utf16Z(strs[k])
    IN  <<2, 0, 0, 0>> \o All(Len(strs)) \o Fill(20, 0)

\* the names used: "Tau", and a name of 60 characters with blanks in it
TauName == <<84, 97, 117>>
LongName == [i \in 1..60 |-> IF i % 7 = 0 THEN 32 ELSE 65 + (i % 26)]

\* the inputs of parse: empty; too short; one checkbox without strings;
\* a checkbox and a numeric with the same prompt string; a record with
\* length 0 before a checkbox; a record longer than the rest of the buffer
\* before a checkbox; names that need cleaning; an extended-prefix
\* checkbox; variable stores with a drop-down and its option
IfrInputs ==
    {<<>>,
     <<CHECKBOX, 14, 1>>,
     CheckboxRecord(0, 1, 16),
     CheckboxRecord(1, 1, 16) \o NumericRecord(1, 3, 32, 5, 200)
        \o StringPackage(<<TauName>>),
     <<153, 0, 2>> \o CheckboxRecord(0, 1, 16),
     <<153, 240, 2>> \o CheckboxRecord(0, 1, 16),
     CheckboxRecord(1, 1, 16) \o CheckboxRecord(3, 1, 17)
        \o StringPackage(<<LongName, TauName, <<33, 95, 33>>>>),
     <<ExtendedPrefix>> \o CheckboxRecord(0, 1, 18),
     VarStoreRecord(1, 512) \o VarStoreEfiRecord(3, 64)
        \o OneOfRecord(1, 1, 16, 1) \o OptionRecord(3, 1)
        \o StringPackage(<<TauName, <<84, 97>>, <<79, 110>>>>)}

\* the names looked up: "Tau", "tAU", "au" and "Setting_0010"
IfrProbes == {TauName, <<116, 65, 85>>, <<97, 117>>, SettingPrefix \o Hex4(16)}

InitIfr ==
    /\ IfrUnused
    /\ CodecUnused
    /\ ParserUnused
    /\ PatcherUnused
    /\ AnalyzerUnused
    /\ EngineUnused

IfrFrame == UNCHANGED <<patcherVars, analyzerVars, engineVars, pureVars>>

\* IFRParser.parse(setup_data)
ParseIfr ==
    \E setup_data \in IfrInputs :
        /\ ifrCalls < MaxIfrCalls
        /\ \E r \in {parse_ifr(ifr, setup_data)} :
              /\ ifr' = r.inst
              /\ ifrRet' = r.ret
              /\ ifrWalk' = [trace |-> r.trace, seen |-> r.seen]
        /\ ifrData' = setup_data
        /\ ifrCalls' = ifrCalls + 1
        /\ lookup' = [fn |-> "none", name |-> <<>>, answer |-> <<>>]
        /\ IfrFrame

Answer(fn, name, answer) ==
    /\ lookup' = [fn |-> fn, name |-> name, answer |-> answer]
    /\ UNCHANGED <<ifr, ifrData, ifrRet, ifrWalk, ifrCalls>>
    /\ IfrFrame

FindOffset ==
    \E name \in IfrProbes :
        Answer("find_offset", name, find_offset(ifr, name))

GetOffsetInfo ==
    \E name \in IfrProbes :
        Answer("get_offset_info", name, get_offset_info(ifr, name))

GetAllSettings == Answer("get_all_settings", <<>>, get_all_settings(ifr))

NextIfr ==
    \/ ParseIfr
    \/ FindOffset
    \/ GetOffsetInfo
    \/ GetAllSettings

SpecIfr == InitIfr /\ [][NextIfr]_vars


\* the length byte examined at cursor p is outside [2,255] or the record
\* it announces runs past the end of the buffer
BadLength(buf, p) ==
    LET length == At(buf, p + 1)
    IN  length < 2 \/ length > 255 \/ p + length > Len(buf)

\* C24: opcode-walk resynchronisation.  A record whose length byte is
\* outside [2,255], or whose length exceeds the remaining buffer, is skipped
\* by advancing the cursor exactly one byte and the walk continues there
\* (one byte further when that byte is the extended-opcode prefix), so the
\* records after it are still examined and decoded.
C24_Resync ==
    \A i \in DOMAIN ifrWalk.trace :
        LET p == ifrWalk.trace[i]
        IN  (BadLength(ifrData, p) /\ p + 1 < Len(ifrData) - 2) =>
                /\ i < Len(ifrWalk.trace)
                /\ ifrWalk.trace[i + 1] =
                       IF At(ifrData, p + 1) = ExtendedPrefix THEN p + 2
                       ELSE p + 1


\* the characters a key may hold: alphanumerics, '_' and '-'
KeyChar(c) == isalnum(c) \/ c = 95 \/ c = 45

\* the index in seen of the last record that resolved to name
LastSeen(name) ==
    CHOOSE j \in DOMAIN ifrWalk.seen :
        /\ ifrWalk.seen[j].name = name
        /\ \A k \in DOMAIN ifrWalk.seen :
              ifrWalk.seen[k].name = name => k <= j

\* C25: last-registered wins.  When several question records of one stream
\* resolve to the same sanitized name, the returned map holds exactly one
\* entry under that name, carrying the offset, size and varstore_id of the
\* last such record in stream order; every key equals its entry's name, is
\* non-empty, at most 50 characters long and made of alphanumerics, '_'
\* and '-' only.
C25_LastRegisteredWins ==
    /\ \A i \in DOMAIN ifrRet :
          LET key == ifrRet[i][1]
          IN  /\ key = ifrRet[i][2].name
              /\ key # <<>>
              /\ Len(key) <= 50
              /\ \A k \in DOMAIN key : KeyChar(key[k])
              /\ \A j \in DOMAIN ifrRet : ifrRet[j][1] = key => j = i
              /\ \E k \in DOMAIN ifrWalk.seen : ifrWalk.seen[k].name = key
    /\ \A k \in DOMAIN ifrWalk.seen :
          LET name  == ifrWalk.seen[k].name
              final == ifrWalk.seen[LastSeen(name)]
              entry == DictGet(ifrRet, name, <<>>)
          IN  /\ DictHas(ifrRet, name)
              /\ entry.offset = final.offset
              /\ entry.size = final.size
              /\ entry.varstore_id = final.varstore_id

\* two records with different offsets and variable stores resolved to one
\* name and the map holds the second; and a key was cut to 50 characters
C25_Witness ==
    /\ Len(ifrWalk.seen) = 2
    /\ ifrWalk.seen[1].name = ifrWalk.seen[2].name
    /\ ifrWalk.seen[1].offset # ifrWalk.seen[2].offset
    /\ ifrWalk.seen[1].varstore_id # ifrWalk.seen[2].varstore_id
    /\ Len(ifrRet) = 1
    /\ ifrRet[1][2].offset = ifrWalk.seen[2].offset


\* an instance whose mapping is the one the most recent parse returned
Returned == [offsets |-> ifrRet]

\* C30: after every call of parse the instance's lookups answer from
\* exactly the mapping that call returned, whatever earlier calls of parse
\* on the instance found; after parse returned the empty mapping for an
\* empty or too-short input, find_offset returns none for every name.
C30_LookupsFollowParse ==
    ifrCalls > 0 =>
        /\ ifr.offsets = ifrRet
        /\ lookup.fn = "find_offset" =>
              /\ lookup.answer = find_offset(Returned, lookup.name)
              /\ Len(ifrData) < 4 => lookup.answer = <<>>
        /\ lookup.fn = "get_offset_info" =>
              lookup.answer = get_offset_info(Returned, lookup.name)
        /\ lookup.fn = "get_all_settings" =>
              /\ Len(lookup.answer) = Len(ifrRet)
              /\ \A i \in DOMAIN ifrRet :
                    /\ lookup.answer[i].name = ifrRet[i][1]
                    /\ lookup.answer[i].offset = ifrRet[i][2].offset


----------------------------------------------------------------------------
(* Termination of the structure parser.                                    *)

\* C26: ImageParser.parse terminates on every finite buffer: the
\* volume-scan cursor strictly increases on every iteration, the one that
\* accepts a volume and advances by its declared length included, and the
\* file-walk cursor strictly increases on every accepted file.
C26_ParseTerminates ==
    parsed.ret # "none" =>
        /\ parsed.ret \in {"ok", "fail"}
        /\ \A k \in DOMAIN parsed.volumes :
              /\ parsed.volumes[k].size > 0
              /\ \A f \in DOMAIN parsed.volumes[k].files :
                    parsed.volumes[k].files[f].size > 0


----------------------------------------------------------------------------
(* The Setup base after load.                                              *)

\* C27: whenever the structure parser located the Setup signature at an
\* offset s >= 0, s = 0 included, load sets the Patcher's Setup base to s and
\* Setup patching is available: the callers' guard on parser.setup_offset
\* lets apply_config run and apply_config does not return the "Setup base
\* not available" failure.
C27_SetupBaseFollowsParser ==
    (hasPatcher /\ setup_offset # <<>>) =>
        /\ setup_base = setup_offset
        /\ Truthy(setup_offset)
        /\ last.op = "apply_config" => last.ret # "fail"


----------------------------------------------------------------------------
(* rebar.py / image.py / engine.py: the ReBAR driver injection.            *)

FV_FILETYPE_DRIVER == 7

\* ImageParser.find_dxe_volume: the first volume with more than five files
\* of type DRIVER; <<>> is None
find_dxe_volume(vols) ==
    LET drivers(vol) == Cardinality({k \in 1..Len(vol.files) :
                            vol.files[k].file_type = FV_FILETYPE_DRIVER})
        hits == {k \in 1..Len(vols) : drivers(vols[k]) > 5}
    IN  IF hits = {} THEN <<>>
        ELSE <<vols[CHOOSE k \in hits : \A j \in hits : k <= j]>>

\* ImageParser.find_free_space(vol, min_size) over the bytes image the parser
\* was built on: the first i of range(len(vol.data) - min_size, 0x48, -0x10)
\* with min_size bytes of 0xFF from i on; <<>> is None
find_free_space(image, vol, min_size) ==
    LET vd    == Slice(image, vol.offset, vol.offset + vol.size)
        start == Len(vd) - min_size
        hits  == {i \in 73..start :
                     /\ (start - i) % 16 = 0
                     /\ Slice(vd, i, i + min_size) = Fill(min_size, 255)}
    IN  IF hits = {} THEN <<>>
        ELSE <<vol.offset + (CHOOSE i \in hits : \A j \in hits : j <= i)>>

\* ReBarInjector._validate_driver on the bytes download_driver obtained
_validate_driver(driver_data) ==
    /\ Len(driver_data) >= 24
    /\ At(driver_data, 20) + 256 * At(driver_data, 21)
         + 65536 * At(driver_data, 22) = Len(driver_data)

\* ReBarInjector.download_driver: what self.driver_data is afterwards, given
\* the bytes obtained (<<>> when nothing could be read): <<>> is None
download_driver(obtained) ==
    IF _validate_driver(obtained) THEN obtained ELSE <<>>

\* ReBarInjector.inject(data, force) with the injector's parser built on
\* image and holding vols: the buffer afterwards and the outcome
inject(d, image, vols, driver_data, force) ==
    IF driver_data = <<>> THEN [data |-> d, ret |-> "fail"]
    ELSE IF analyze(d, SecurityStatus).boot_guard_verified /\ ~force
    THEN [data |-> d, ret |-> "fail"]
    ELSE LET dxe_vol == find_dxe_volume(vols)
         IN  IF dxe_vol = <<>> THEN [data |-> d, ret |-> "fail"]
             ELSE LET min_size    == Len(driver_data) + 256
                      free_offset == find_free_space(image, dxe_vol[1],
                                                     min_size)
                  IN  IF ~Truthy(free_offset)
                      THEN [data |-> d, ret |-> "fail"]
                      ELSE LET written == Splice(d, free_offset[1],
                                                 driver_data)
                               summed  == recalc_fv_checksum(
                                              [data |-> written,
                                               patches |-> <<>>,
                                               setup_base |-> <<>>],
                                              dxe_vol[1].offset)
                           IN  [data |-> summed.data, ret |-> "ok"]

----------------------------------------------------------------------------
(* The PatchEngine with the ReBAR injection: specification SpecRebar.      *)

\* length of the images of the injection runs
RebarLen == 576

\* a valid 24-byte driver file, one whose size field disagrees with its
\* length, and nothing (the path does not exist and the download fails)
RebarDriver == FileRecord(24, FV_FILETYPE_DRIVER)
RebarDrivers == {RebarDriver, FileRecord(32, FV_FILETYPE_DRIVER), <<>>}

\* an image with one volume at 0x50 that runs to the end of the image and
\* holds six DRIVER files followed by 0xFF padding; the Setup signature at
\* 4 with CfgLk = 1; with verified, a key manifest with the Verified Boot
\* policy bit
RebarImage(verified) ==
    LET b0 == [i \in 1..RebarLen |-> IF i <= 80 + 216 THEN 0 ELSE 255]
        b1 == Put(Put(b0, 80, FVH_SIGNATURE), 80 + 32, PackI(RebarLen - 80))
        b2 == Put(Put(b1, 4, setup_sig), 4 + 67, <<1>>)
        b3 == [i \in 1..RebarLen |->
                  IF i > 80 + 72 /\ i <= 80 + 216
                  THEN RebarDriver[((i - 1 - 80 - 72) % 24) + 1]
                  ELSE b2[i]]
    IN  IF verified THEN Put(Put(b3, 16, keym_sig), 32, PackI(1)) ELSE b3

RebarImages == {RebarImage(FALSE), RebarImage(TRUE)}

InitRebar ==
    /\ inFile \in RebarImages
    /\ hasData = FALSE
    /\ data = <<>>
    /\ hasParser = FALSE
    /\ volumes = <<>>
    /\ setup_offset = <<>>
    /\ hasPatcher = FALSE
    /\ stats = EngineStats
    /\ fs = [p \in Paths |-> NoFile]
    /\ pc = "idle"
    /\ outBefore = NoFile
    /\ dataBefore = <<>>
    /\ passed = FALSE
    /\ refused = FALSE
    /\ saved = FALSE
    /\ injected = FALSE
    /\ PatcherUnused
    /\ AnalyzerUnused
    /\ CodecUnused
    /\ IfrUnused
    /\ ParserUnused

\* PatchEngine.inject_rebar_driver(driver_path, force): obtained is what
\* download_driver reads from the path or the network
InjectRebarDriver ==
    \E obtained \in RebarDrivers, force \in BOOLEAN :
        LET arg == <<IF force THEN 1 ELSE 0, Len(obtained)>>
        IN  /\ Begin("inject_rebar_driver", arg)
            /\ IF ~hasParser
               THEN /\ Returns("inject_rebar_driver", arg, "fail")
                    /\ UNCHANGED <<data, injected>>
               ELSE \E r \in {inject(data, inFile, volumes,
                                     download_driver(obtained), force)} :
                        /\ data' = r.data
                        /\ injected' = (injected \/ r.ret = "ok")
                        /\ Returns("inject_rebar_driver", arg, r.ret)
            /\ UNCHANGED <<inFile, hasData, hasParser, volumes, setup_offset,
                           hasPatcher, stats, fs, pc, outBefore, passed,
                           refused, saved, pdata, patches, setup_base,
                           initData, analyzerVars, pureVars, ifrVars>>

NextRebar ==
    \/ Load
    \/ InjectRebarDriver
    \/ ApplyConfig
    \/ SaveBegin
    \/ SaveVerify
    \/ SaveRename

SpecRebar == InitRebar /\ [][NextRebar]_vars

\* where inject puts the driver in the image of this engine
InjectionOffset ==
    find_free_space(inFile, find_dxe_volume(volumes)[1],
                    Len(RebarDriver) + 256)[1]

\* C28: once inject_rebar_driver has returned True, whether before or after
\* apply_config, a save that returns True has written an output file that
\* holds the injected driver at the place it was injected and a volume
\* header whose 16-bit words sum to zero
C28_InjectionSaved ==
    (injected /\ last.op = "save" /\ last.ret = "ok") =>
        /\ outFile.exists
        /\ Slice(outFile.bytes, InjectionOffset,
                 InjectionOffset + Len(RebarDriver)) = RebarDriver
        /\ WordSum(Slice(outFile.bytes, 80, 80 + 56)) = 0


----------------------------------------------------------------------------
(* The hard-fail rule against the warnings, checked under SpecAnalyzer.    *)

\* the status analyze returned carries a warning of severity CRITICAL
HasCritical ==
    \E k \in 1..Len(status.warnings) : status.warnings[k].level = "CRITICAL"

\* C29: whenever the status returned by analyze carries at least one warning
\* that begins with CRITICAL (Verified Boot, a Boot Guard enforcement module
\* name, PFAT), its safe_to_flash is false
C29_CriticalBlocksFlash ==
    (analyses > 0 /\ HasCritical) => ~status.safe_to_flash

========================================================================
